---- MODULE Spec2Model ----
(***************************************************************************)
(* A model of the rose-offline game server: the Bevy schedules built by    *)
(* GameWorld::run, the save / clan systems and the storage adapters.       *)
(*                                                                         *)
(* The module holds several specifications, one per part of the server:    *)
(*   SpecStep       one step of the main schedule                          *)
(*   SpecUpdate     a step from the start of its Update schedule           *)
(*   SpecSave       save_system and the writes it issues                   *)
(*   SpecClan       attempts to create clans, through the adapter and      *)
(*                  through clan_system                                    *)
(*   SpecStore      the storage service and the two adapters               *)
(*   SpecFile       the file of one clan under the JSON adapter, its       *)
(*                  writers and a reader                                   *)
(*   SpecLogin      a connection to the login server and the input systems *)
(*                  that read its queue                                    *)
(*   SpecHash       the hash of a path of the archive                      *)
(*   SpecVfs        the load of an archive index and the lookups in it     *)
(*   SpecBot        a bot that scans the enemies near it for a target      *)
(*   SpecGuild      clan_system and the events of a creator and of a clan  *)
(*   SpecWorld      the world server: connection requests, CreateCharacter *)
(* Each specification drives its own variables and leaves the others at    *)
(* their idle values.                                                      *)
(***************************************************************************)
EXTENDS Integers, Sequences, FiniteSets, TLC

VARIABLES
    sched,      \* the schedule that is running: PreUpdate, Update, PostUpdate, Last, or Idle
    status,     \* status[s] of every system s of the app: waiting, running, done
    frame,      \* number of completed runs of the main schedule (steps)
    deferred,   \* systems that have finished and whose queued commands are not applied yet
    \* ---- the save system and the storage writes it issues
    phase,      \* where the step is: Simulate (the schedules before Last), Last, Idle
    step,       \* number of completed steps
    comps,      \* comps[e]: the persistable components of entity e, and whether e exists
    saveEvents, \* Events<SaveEvent>: the events sent and not yet read by save_system
    enqSnap,    \* (history) the components of the entity when each event was sent
    savePc,     \* position of save_system in the event it handles
    inflight,   \* the storage operation that block_on is running, or NoOp
    blocked,    \* whether the thread of the step is blocked in block_on
    despawnCmds,\* entities that queued commands will despawn
    charStore,  \* characters in storage, by name
    bankStore,  \* banks in storage, by account name
    members,    \* clan.members of the Clan component: its Online and Offline entries, in order
    clanEvents, \* Events<ClanEvent>: the MemberDisconnect events sent and not yet read
    \* ---- the storage backend and the clans
    backend,    \* the configured storage adapter: json or postgres
    clans,      \* clans in storage, by name
    attempt,    \* attempt[p]: an attempt to create a clan and how far it has got
    \* ---- the file of one clan in the JSON storage directory
    path,       \* the file that clans/<name>.json names: its number, 0 if there is none
    inodes,     \* inodes[i]: the chunks written to file i so far
    writer,     \* writer[p]: a save_clan or create_clan call and how far it has got
    reader,     \* a load_clan call and how far it has got
    stored,     \* (history) the versions of the record that have been at the path
    \* ---- a connection to the login server
    clientRx,     \* client_message_rx: the client messages that wait in the inbound queue
    loginAccount, \* the Account component of the connection's entity, if it has one
    pendingInsert,\* whether a queued command will insert the Account component
    polled,       \* the input systems that have run in this step
    queuedAtStart,\* (history) the number of messages that waited when the step started
    consumed,     \* (history) the number of messages taken from the queue in this step
    tick,         \* number of completed steps
    loginPc,      \* running, or panicked
    \* ---- the hash of a path of the archive
    vfsPath,    \* the path given to FileNameHash::from, as character codes
    normPath,   \* the normalised path, once it has been computed
    pathHash,   \* the result: the hash, or a panic
    \* ---- an index of the archive: its load and the lookups
    indexData,  \* data: the bytes of the index file, decrypted in place
    origData,   \* (history) the bytes of the index file as they were read
    loadPc,     \* where load is: start, decrypt, records, loaded, failed
    cryptPos,   \* pos: the offset of the next block to decrypt
    cryptKey,   \* hash: the key of the next block, four bytes
    blockKeys,  \* (history) the offset and the key of every block that was decrypted
    fileCount,  \* file_count: the number of records to read
    files,      \* files: the entries of the index, by path hash
    recordsRead,\* the number of records read so far
    lookupResult, \* the result of the last open_file
    \* ---- a bot that looks for a target to attack
    nearest_targets, \* the buffer of (distance, entity), at most 10 entries
    scannedEnemies,  \* (history) the distances of the living enemies, in scan order
    skippedEntities, \* the nearby entities that were not living enemies
    botPc,           \* where the action is: scanning, scanned, Executing, Failure
    botTarget,       \* BotCombatTarget: the entity that was chosen, if any
    \* ---- clan_system and the events of one creator and one clan
    guildScope,   \* which events are sent: create, arith
    guildPc,      \* sending: systems send events; running: clan_system reads them
    guildStep,    \* the number of runs of clan_system that have ended
    guildEvents,  \* the ClanEvents that clan_system reads in this run
    creator,      \* the components of the creator: clan_membership, level, money
    guildCmds,    \* the commands queued by clan_system, applied when it has run
    clanEntities, \* the Clan entities that were spawned: their names
    guild,        \* level, money and points of the Clan entity of the events
    guildSaves,   \* the number of save_clan calls for that clan
    guildNotes,   \* the number of ClanUpdateInfo notifications for that clan
    guildLast,    \* (history) the event handled last, the state before, the reply
    \* ---- the world server: login tokens and connections
    tokens,       \* LoginTokens: the token of every id, if there is one
    wclients,     \* the world connections: Account, CharacterList, login_token
    wsteps,       \* the number of client messages the world server has handled
    wlast,        \* (history) the message handled last, the state before, the reply
    \* ---- the storage service and its callers
    scope,      \* what the behaviour works on: account, character, bank, clan, world
    accounts,   \* accounts in storage, by name
    characters, \* characters in storage, by name
    banks,      \* banks in storage, by account name
    conn,       \* the Account component of the connected world client, if any
    requests,   \* number of requests the world server has handled for the client
    last        \* (history) the last call: its arguments, the record it found, its result

schedVars == <<sched, status, frame, deferred>>

clanVars == <<backend, clans, attempt>>

fileVars == <<path, inodes, writer, reader, stored>>

hashVars == <<vfsPath, normPath, pathHash>>

vfsVars == <<indexData, origData, loadPc, cryptPos, cryptKey, blockKeys, fileCount,
             files, recordsRead, lookupResult>>

botVars == <<nearest_targets, scannedEnemies, skippedEntities, botPc, botTarget>>

guildVars == <<guildScope, guildPc, guildStep, guildEvents, creator, guildCmds,
               clanEntities, guild, guildSaves, guildNotes, guildLast>>

loginVars == <<clientRx, loginAccount, pendingInsert, polled, queuedAtStart, consumed,
               tick, loginPc>>

worldVars == <<tokens, wclients, wsteps, wlast>>

storeVars == <<scope, accounts, characters, banks, conn, requests, last>>

saveVars == <<phase, step, comps, saveEvents, enqSnap, savePc, inflight, blocked,
              despawnCmds, charStore, bankStore, members, clanEvents>>

vars == <<sched, status, frame, deferred, phase, step, comps, saveEvents, enqSnap, savePc,
          inflight, blocked, despawnCmds, charStore, bankStore, members,
          clanEvents, backend, clans,
          attempt, path, inodes, writer, reader, stored, clientRx,
          loginAccount, pendingInsert, polled, queuedAtStart, consumed, tick, loginPc,
          vfsPath, normPath, pathHash, indexData, origData, loadPc, cryptPos,
          cryptKey, blockKeys, fileCount, files, recordsRead, lookupResult,
          nearest_targets, scannedEnemies, skippedEntities, botPc, botTarget,
          guildScope, guildPc, guildStep, guildEvents, creator, guildCmds,
          clanEntities, guild, guildSaves, guildNotes, guildLast,
          tokens, wclients, wsteps, wlast,
          scope, accounts, characters, banks, conn, requests, last>>

(***************************************************************************)
(* Bounds of the model.                                                    *)
(***************************************************************************)
\* Calls of load_clan that a behaviour of the clan file follows.
MaxLoads == 2
\* Steps that a behaviour of the login connection follows.
MaxTicks == 2
\* Client messages that wait in the inbound queue of a connection.
MaxQueue == 2
\* Runs of clan_system, and ClanEvents read in one run.
MaxGuildSteps == 2
MaxGuildEvents == 2
\* Runs of clan_system in which AddLevel, AddMoney and AddPoints events are read.
MaxArithSteps == 1
\* Living enemies, and other entities, within the search distance of a bot.
MaxEnemies == 11
MaxSkipped == 1
\* Records in the body of an index file.
MaxRecords == 2
\* Characters of a path given to the hash.
MaxPathLen == 5
\* Steps of the main loop that a behaviour follows.
MaxFrames == 1
\* Steps that a behaviour of the save system follows.
MaxSteps == 1
\* Save events sent in one step.
MaxEvents == 2
\* Requests that the world server handles for the connected client.
MaxRequests == 3
\* Client messages that the world server handles for its connections.
MaxWorldSteps == 2

(***************************************************************************)
(* GameWorld::run: the systems of each schedule (game_world.rs 165-245).   *)
(***************************************************************************)
\* First tuple of the PreUpdate chain.
PreUpdateGroup1 ==
    { "world_time_system", "control_server_system",
      "login_server_authentication_system", "login_server_system",
      "world_server_authentication_system", "world_server_system",
      "game_server_authentication_system", "game_server_join_system",
      "game_server_main_system", "revive_event_system",
      "chat_commands_system", "monster_spawn_system", "npc_ai_system",
      "expire_time_system", "status_effect_system",
      "passive_recovery_system", "driving_time_system" }

MotionSystems ==
    { "update_character_motion_data_system", "update_npc_motion_data_system",
      "update_position_system" }

ConsumeSystems == { "use_ammo_system", "pickup_item_system" }

\* Third tuple of the PreUpdate chain.
PreUpdateGroup2 ==
    MotionSystems \cup { "command_system" } \cup ConsumeSystems
      \cup { "party_member_event_system", "party_system",
             "party_member_update_info_system", "clan_system" }

PreUpdateSystems == PreUpdateGroup1 \cup { "apply_deferred" } \cup PreUpdateGroup2

UpdateSystems ==
    { "bank_system", "personal_store_system", "npc_store_system", "quest_system",
      "use_item_system", "reward_item_system", "damage_system",
      "skill_effect_system", "item_life_system", "equipment_event_system" }

PostUpdateSystems ==
    { "weight_system", "experience_points_system",
      "party_update_average_level_system", "client_entity_visibility_system" }

LastSystems ==
    { "ability_values_update_character_system", "ability_values_update_npc_system",
      "ability_values_changed_system", "server_messages_system", "save_system" }

Systems == PreUpdateSystems \cup UpdateSystems \cup PostUpdateSystems \cup LastSystems

SystemsOf(sc) ==
    CASE sc = "PreUpdate"  -> PreUpdateSystems
      [] sc = "Update"     -> UpdateSystems
      [] sc = "PostUpdate" -> PostUpdateSystems
      [] sc = "Last"       -> LastSystems
      [] OTHER             -> {}

(***************************************************************************)
(* The ordering constraints: <<a, b>> is "a runs before b".  .chain() on a *)
(* tuple orders every system of an element before every system of the next *)
(* element; .before() / .after() add one edge.                             *)
(***************************************************************************)
\* PreUpdateOrder without the inner .chain() calls of the third tuple.
PreUpdateOrderNoInnerChains ==
    { <<"game_server_main_system", "revive_event_system">> }
      \cup { <<a, "apply_deferred">> : a \in PreUpdateGroup1 }
      \cup { <<"apply_deferred", b>> : b \in PreUpdateGroup2 }

\* PreUpdateOrder without the outer .chain(): apply_deferred is one more system.
PreUpdateOrderNoBarrier ==
    { <<"game_server_main_system", "revive_event_system">> }
      \cup { <<m, "command_system">> : m \in MotionSystems }
      \cup { <<"command_system", c>> : c \in ConsumeSystems }
      \cup { <<"party_member_event_system", "party_system">>,
             <<"party_system", "party_member_update_info_system">> }

PreUpdateOrder ==
    { <<"game_server_main_system", "revive_event_system">> }
      \cup { <<a, "apply_deferred">> : a \in PreUpdateGroup1 }
      \cup { <<"apply_deferred", b>> : b \in PreUpdateGroup2 }
      \cup { <<m, "command_system">> : m \in MotionSystems }
      \cup { <<"command_system", c>> : c \in ConsumeSystems }
      \cup { <<"party_member_event_system", "party_system">>,
             <<"party_system", "party_member_update_info_system">> }

\* UpdateOrder without the .before(item_life_system) of damage_system.
UpdateOrderNoDamageEdge ==
    { <<"skill_effect_system", "item_life_system">>,
      <<"item_life_system", "equipment_event_system">> }

UpdateOrder ==
    { <<"damage_system", "item_life_system">>,
      <<"skill_effect_system", "item_life_system">>,
      <<"item_life_system", "equipment_event_system">> }

PostUpdateOrder ==
    { <<"experience_points_system", "party_update_average_level_system">> }

\* LastOrder without the .before() of ability_values_update_npc_system.
LastOrderNoNpcEdge ==
    { <<"ability_values_update_character_system", "ability_values_changed_system">> }

LastOrder ==
    { <<"ability_values_update_character_system", "ability_values_changed_system">>,
      <<"ability_values_update_npc_system", "ability_values_changed_system">> }

Order == PreUpdateOrder \cup UpdateOrder \cup PostUpdateOrder \cup LastOrder

\* An order of the schedules in which Last follows Update.
NextScheduleLastAfterUpdate(sc) ==
    CASE sc = "PreUpdate"  -> "Update"
      [] sc = "Update"     -> "Last"
      [] sc = "PostUpdate" -> "Last"
      [] sc = "Last"       -> "PreUpdate"

\* The Main schedule runs its schedules in this order (the stage order comment, 150-158).
NextSchedule(sc) ==
    CASE sc = "PreUpdate"  -> "Update"
      [] sc = "Update"     -> "PostUpdate"
      [] sc = "PostUpdate" -> "Last"
      [] sc = "Last"       -> "PreUpdate"

(***************************************************************************)
(* save_system (save_system.rs 54-152).  A SaveEvent::Character names an   *)
(* entity and says whether to remove it after the save; the character and  *)
(* bank written are built from the entity's components when save_system    *)
(* handles the event, inside SAVE_RUNTIME.block_on.                        *)
(***************************************************************************)
Ents == { "e1", "e2" }
\* Two values of a persistable component (and of a stored record).
Vals == { 0, 1 }
\* A stored record is kept as an Option: no record, or the one record.
NoRec == {}
Some(v) == { v }
ValueOf(o) == CHOOSE v \in o : TRUE
NoOp == [op |-> "none"]

\* A system of an earlier schedule sends a SaveEvent for entity e.
SendSaveEvent(e, remove) ==
    /\ phase = "Simulate"
    /\ Len(saveEvents) < MaxEvents
    /\ saveEvents' = Append(saveEvents, [entity |-> e, remove_after_save |-> remove])
    /\ enqSnap' = Append(enqSnap, [val |-> comps[e].val, bank |-> comps[e].bank])
    /\ UNCHANGED <<phase, step, comps, savePc, inflight, blocked, despawnCmds,
                   charStore, bankStore>>
    /\ UNCHANGED <<members, clanEvents>>
    /\ UNCHANGED <<schedVars, clanVars, storeVars, fileVars, loginVars, hashVars, vfsVars, botVars, guildVars, worldVars>>

\* A system of an earlier schedule changes a persistable component of entity e
\* (damage_system the health points, bank_system the bank, ...).
MutateComponents(e, v, b) ==
    /\ phase = "Simulate"
    /\ comps[e].alive
    /\ <<v, b>> # <<comps[e].val, comps[e].bank>>
    /\ comps' = [comps EXCEPT ![e].val = v, ![e].bank = b]
    /\ UNCHANGED <<phase, step, saveEvents, enqSnap, savePc, inflight, blocked,
                   despawnCmds, charStore, bankStore>>
    /\ UNCHANGED <<members, clanEvents>>
    /\ UNCHANGED <<schedVars, clanVars, storeVars, fileVars, loginVars, hashVars, vfsVars, botVars, guildVars, worldVars>>

\* The clan whose member list the model follows (one Clan entity).
ClanName == "Knights"

\* character_info.name and character_info.job of the character of entity e.
CharacterNameOf(e) == IF e = "e1" THEN "Arua" ELSE "Hebarn"
JobOf(e) == IF e = "e1" THEN "Soldier" ELSE "Muse"

\* ClanMember::Online { entity, position, contribution } and
\* ClanMember::Offline { name, position, contribution, level, job }.
OnlineMember(e, position, contribution) ==
    [kind |-> "Online", entity |-> e, position |-> position,
     contribution |-> contribution]
OfflineMember(name, position, contribution, level, job) ==
    [kind |-> "Offline", name |-> name, position |-> position,
     contribution |-> contribution, level |-> level, job |-> job]

\* clan.find_online_member_mut(entity): the place of the Online entry of the
\* entity in clan.members, 0 if there is none.
FindOnlineMember(ms, e) ==
    IF \E i \in 1..Len(ms) : ms[i].kind = "Online" /\ ms[i].entity = e
    THEN CHOOSE i \in 1..Len(ms) :
            /\ ms[i].kind = "Online" /\ ms[i].entity = e
            /\ \A j \in 1..(i - 1) : ~(ms[j].kind = "Online" /\ ms[j].entity = e)
    ELSE 0

\* character.clan_membership of a live entity (134): the entity carries the
\* membership of the clan that lists it as an online member.
ClanMembershipOf(e) == FindOnlineMember(members, e) # 0

\* The event that save_system sends for entity e (135-141).
MemberDisconnectOf(e) ==
    [disconnect_entity |-> e, name |-> CharacterNameOf(e), level |-> comps[e].val,
     job |-> JobOf(e)]

\* ClanStorageMember of one entry (clan_system.rs 559-583): nothing for an Online
\* entry whose entity the member query does not find.
StorageMemberOf(m) ==
    IF m.kind = "Offline"
    THEN << [name |-> m.name, position |-> m.position, contribution |-> m.contribution] >>
    ELSE IF comps[m.entity].alive
         THEN << [name |-> CharacterNameOf(m.entity), position |-> m.position,
                  contribution |-> m.contribution] >>
         ELSE << >>

\* convert_clan_to_storage (clan_system.rs 555-595): the members in the order of
\* clan.members.
RECURSIVE ClanMembersToStorage(_)
ClanMembersToStorage(ms) ==
    IF ms = << >> THEN << >>
    ELSE StorageMemberOf(Head(ms)) \o ClanMembersToStorage(Tail(ms))

\* An entry that takes the position of the replaced one and no contribution.
OfflineEntryOfNoContribution(ev, old) ==
    OfflineMember(ev.name, old.position, 0, ev.level, ev.job)

\* The Offline entry that replaces the Online entry old (229-241).
OfflineEntryOf(ev, old) ==
    OfflineMember(ev.name, old.position, old.contribution, ev.level, ev.job)

\* clan_system handles a ClanEvent::MemberDisconnect (clan_system.rs 220-277): if
\* the clan lists the entity as an online member the entry becomes an offline
\* one and the clan is saved (a failed save is logged); if not, the event is
\* skipped.
ClanMemberDisconnect(ok) ==
    /\ phase = "Simulate"
    /\ clanEvents # <<>>
    /\ LET ev == Head(clanEvents)
           i == FindOnlineMember(members, ev.disconnect_entity)
           ms == [members EXCEPT ![i] = OfflineEntryOf(ev, members[i])]
       IN IF i # 0
          THEN /\ members' = ms
               /\ clans' = IF ok
                           THEN [clans EXCEPT ![ClanName] =
                                    Some([name |-> ClanName,
                                          data |-> ClanMembersToStorage(ms)])]
                           ELSE clans
          ELSE UNCHANGED <<members, clans>>
    /\ clanEvents' = Tail(clanEvents)
    /\ UNCHANGED <<phase, step, comps, saveEvents, enqSnap, savePc, inflight, blocked,
                   despawnCmds, charStore, bankStore>>
    /\ UNCHANGED <<backend, attempt>>
    /\ UNCHANGED <<schedVars, storeVars, fileVars, loginVars, hashVars, vfsVars, botVars, guildVars, worldVars>>

\* An order of reading in which the newest event comes first.
PendingSaveNewestFirst(events) == events[Len(events)]

\* for pending_save in save_events.iter() (63): the reader yields the events in
\* the order they were sent.
PendingSave(events) == Head(events)

\* The Last schedule starts: save_system runs.  clan_system, a system of
\* PreUpdate, has read every ClanEvent by then.
EnterLast ==
    /\ phase = "Simulate"
    /\ clanEvents = <<>>
    /\ phase' = "Last"
    /\ UNCHANGED <<step, comps, saveEvents, enqSnap, savePc, inflight, blocked,
                   despawnCmds, charStore, bankStore>>
    /\ UNCHANGED <<members, clanEvents>>
    /\ UNCHANGED <<schedVars, clanVars, storeVars, fileVars, loginVars, hashVars, vfsVars, botVars, guildVars, worldVars>>

\* CharacterStorage { .. } built from the components (70-88).
CharacterStorageOf(e) == comps[e].val

\* BankStorage::from(character.bank) (101).
BankStorageOf(e) == comps[e].bank

\* save_system takes the next event (63-69, 146-148).  If the entity is found the
\* character is built and block_on runs save_character on the calling thread; if
\* not, nothing is saved and remove_after_save still asks for the despawn.
SaveTakeEvent ==
    /\ phase = "Last"
    /\ savePc = "idle"
    /\ saveEvents # <<>>
    /\ LET ev == PendingSave(saveEvents) IN
        IF comps[ev.entity].alive
        THEN /\ inflight' = [op |-> "save_character", key |-> ev.entity,
                             data |-> CharacterStorageOf(ev.entity)]
             /\ blocked' = TRUE
             /\ savePc' = "save_character"
             /\ UNCHANGED <<saveEvents, enqSnap, despawnCmds>>
        ELSE /\ saveEvents' = Tail(saveEvents)
             /\ enqSnap' = Tail(enqSnap)
             /\ savePc' = IF ev.remove_after_save THEN "panicked" ELSE "idle"
             /\ UNCHANGED <<inflight, blocked, despawnCmds>>
    /\ UNCHANGED <<phase, step, comps, charStore, bankStore>>
    /\ UNCHANGED <<members, clanEvents>>
    /\ UNCHANGED <<schedVars, clanVars, storeVars, fileVars, loginVars, hashVars, vfsVars, botVars, guildVars, worldVars>>

\* The adapter finishes save_character (92-98): the record is replaced, or the
\* write fails and the error is logged.  The same block_on goes on to save_bank.
CompleteSaveCharacter(ok) ==
    /\ savePc = "save_character"
    /\ charStore' = IF ok THEN [charStore EXCEPT ![inflight.key] = Some(inflight.data)]
                          ELSE charStore
    /\ inflight' = [op |-> "save_bank", key |-> inflight.key,
                    data |-> BankStorageOf(inflight.key)]
    /\ savePc' = "save_bank"
    /\ UNCHANGED <<phase, step, comps, saveEvents, enqSnap, blocked, despawnCmds,
                   bankStore>>
    /\ UNCHANGED <<members, clanEvents>>
    /\ UNCHANGED <<schedVars, clanVars, storeVars, fileVars, loginVars, hashVars, vfsVars, botVars, guildVars, worldVars>>

\* The adapter finishes save_bank (100-109): block_on returns and save_system
\* handles remove_after_save (111-148).
CompleteSaveBank(ok) ==
    /\ savePc = "save_bank"
    /\ bankStore' = IF ok THEN [bankStore EXCEPT ![inflight.key] = Some(inflight.data)]
                          ELSE bankStore
    /\ inflight' = NoOp
    /\ blocked' = FALSE
    /\ savePc' = "idle"
    /\ despawnCmds' = IF PendingSave(saveEvents).remove_after_save
                      THEN despawnCmds \cup { PendingSave(saveEvents).entity }
                      ELSE despawnCmds
    /\ clanEvents' = IF /\ PendingSave(saveEvents).remove_after_save
                         /\ ClanMembershipOf(PendingSave(saveEvents).entity)
                      THEN Append(clanEvents,
                                  MemberDisconnectOf(PendingSave(saveEvents).entity))
                      ELSE clanEvents
    /\ saveEvents' = Tail(saveEvents)
    /\ enqSnap' = Tail(enqSnap)
    /\ UNCHANGED <<phase, step, comps, charStore, members>>
    /\ UNCHANGED <<schedVars, clanVars, storeVars, fileVars, loginVars, hashVars, vfsVars, botVars, guildVars, worldVars>>

\* The Last schedule ends: the queued commands are applied and the next step starts.
EndStep ==
    /\ phase = "Last"
    /\ savePc = "idle"
    /\ saveEvents = <<>>
    /\ ~blocked
    /\ comps' = [e \in Ents |->
                    IF e \in despawnCmds THEN [comps[e] EXCEPT !.alive = FALSE]
                                         ELSE comps[e]]
    /\ despawnCmds' = {}
    /\ step' = step + 1
    /\ phase' = IF step + 1 < MaxSteps THEN "Simulate" ELSE "Stopped"
    /\ UNCHANGED <<saveEvents, enqSnap, savePc, inflight, blocked, charStore, bankStore>>
    /\ UNCHANGED <<members, clanEvents>>
    /\ UNCHANGED <<schedVars, clanVars, storeVars, fileVars, loginVars, hashVars, vfsVars, botVars, guildVars, worldVars>>

SaveNext ==
    \/ \E e \in Ents, remove \in BOOLEAN : SendSaveEvent(e, remove)
    \/ \E e \in Ents, v \in Vals, b \in Vals : MutateComponents(e, v, b)
    \/ \E ok \in BOOLEAN : ClanMemberDisconnect(ok)
    \/ EnterLast
    \/ SaveTakeEvent
    \/ \E ok \in BOOLEAN : CompleteSaveCharacter(ok)
    \/ \E ok \in BOOLEAN : CompleteSaveBank(ok)
    \/ EndStep

\* C3 (as claimed): the thread of the step is never blocked while a character or
\* bank write issued by save_system is in flight.
C3_StepNeverWaitsForStorage ==
    inflight.op \in { "save_character", "save_bank" } => ~blocked

\* C4 (as claimed): the character and the bank written for a SaveEvent are the
\* entity's components at the moment the event was sent.
C4_WriteEqualsSnapshotAtSend ==
    /\ inflight.op = "save_character" => inflight.data = Head(enqSnap).val
    /\ inflight.op = "save_bank" => inflight.data = Head(enqSnap).bank

\* C18: the save events of a step are drained in the order they were sent, and
\* so are those of one entity: a new event goes behind the ones that wait,
\* save_system issues its write for the oldest event that waits and removes
\* that event when it is done with it, and a write that succeeds replaces the
\* stored record, so the record stored after the step is the one written for
\* the last event of the entity.
C18_SaveEventsDrainedInOrder ==
    [][ /\ Len(saveEvents') > Len(saveEvents) =>
              SubSeq(saveEvents', 1, Len(saveEvents)) = saveEvents
        /\ Len(saveEvents') < Len(saveEvents) => saveEvents' = Tail(saveEvents)
        /\ inflight.op = "none" /\ inflight'.op # "none" =>
              /\ inflight'.op = "save_character"
              /\ inflight'.key = Head(saveEvents).entity
              /\ inflight'.data = comps[Head(saveEvents).entity].val
        /\ charStore' # charStore =>
              /\ inflight.op = "save_character"
              /\ charStore' = [charStore EXCEPT ![inflight.key] = Some(inflight.data)]
      ]_vars

\* C18 witness: two events of entity e1 were sent in the step; the write of the
\* first has replaced the record and the write of the second, the last event
\* that waits, is in flight.
C18_Witness ==
    /\ Len(saveEvents) = 1
    /\ Head(saveEvents).entity = "e1"
    /\ inflight.op = "save_character" /\ inflight.key = "e1"
    /\ charStore["e1"] = Some(inflight.data)

\* C19 (as claimed): an event whose entity does not resolve is skipped without
\* aborting the step: save_system never panics.
C19_UnresolvedEventNeverAbortsStep ==
    savePc # "panicked"

\* C20 (as claimed): when a step ends, every entity that the clan lists as an
\* online member exists; an entity that save_system removed in the step is not
\* listed online any more.
C20_OnlineMembersExistAtStepEnd ==
    [][ step' = step + 1 =>
            \A i \in 1..Len(members') :
                members'[i].kind = "Online" => comps'[members'[i].entity].alive ]_vars

\* C21: handling a MemberDisconnect for an entity that is an Online member of
\* the clan replaces exactly that entry, in place, by an Offline entry with the
\* name, level and job of the event and the position and contribution of the
\* replaced entry; the other entries, their order and the number of members
\* are unchanged.  For an entity that is not an Online member nothing changes
\* and no clan is saved.
C21_MemberDisconnectFrame ==
    [][ clanEvents # << >> /\ clanEvents' = Tail(clanEvents) =>
          LET ev == Head(clanEvents)
              at == { i \in 1..Len(members) :
                        /\ members[i].kind = "Online"
                        /\ members[i].entity = ev.disconnect_entity }
          IN /\ Len(members') = Len(members)
             /\ \A i \in 1..Len(members) \ at : members'[i] = members[i]
             /\ \A i \in at :
                   /\ members'[i].kind = "Offline"
                   /\ members'[i].name = ev.name
                   /\ members'[i].level = ev.level
                   /\ members'[i].job = ev.job
                   /\ members'[i].position = members[i].position
                   /\ members'[i].contribution = members[i].contribution
             /\ Cardinality(at) <= 1
             /\ at = {} => clans' = clans
      ]_vars

\* C21 witness: the entry of e2, the third of three, has become an Offline entry
\* with its position and contribution, behind the untouched entries of e1 and
\* of the member that was offline before.
C21_Witness ==
    /\ Len(members) = 3
    /\ members[1] = OnlineMember("e1", "Master", 7)
    /\ members[2].kind = "Offline" /\ members[2].name = "Old"
    /\ members[3] = OfflineMember("Hebarn", "Junior", 2, 0, "Muse")

\* The name of a member of the in-memory clan.
MemberNameOf(m) == IF m.kind = "Offline" THEN m.name ELSE CharacterNameOf(m.entity)

\* C34: every clan record that clan_system writes holds exactly one entry for
\* each member of the in-memory clan, Online or Offline, in order, with the
\* name, position and contribution of the member; no member is missing, also
\* when several members disconnected in the same step.
C34_WrittenRecordListsEveryMember ==
    [][ clans'[ClanName] # clans[ClanName] =>
          LET written == ValueOf(clans'[ClanName]).data
          IN /\ Len(written) = Len(members')
             /\ \A i \in 1..Len(written) :
                   /\ written[i].name = MemberNameOf(members'[i])
                   /\ written[i].position = members'[i].position
                   /\ written[i].contribution = members'[i].contribution
      ]_vars

(***************************************************************************)
(* Creating a clan.  The adapters' create_clan (json_adapter.rs 113-127,  *)
(* postgres_adapter.rs 298-312) may be called by several tasks at once, so *)
(* its steps interleave; clan_system handles its ClanEvent::Create events  *)
(* one after the other (clan_system.rs 90-219).  The record written by     *)
(* attempt p carries p as its data (the creator is its only member).       *)
(***************************************************************************)
Backends == { "json", "postgres" }
ClanNames == { "Knights", "Rogues" }
Attempts == { 1, 2 }

NoAttempt ==
    [via |-> "none", name |-> "none", pc |-> "idle", res |-> "none",
     msg |-> "none", paid |-> FALSE]

\* clan_exists: the file exists (json 179-182), a row exists (postgres 376-385).
ClanExists(store, name) == store[name] # NoRec

\* Without persist_noclobber: the temporary file replaces whatever is at the path.
PersistNoClobberOverwrites(store, name, data) ==
    [store |-> [store EXCEPT ![name] = Some(data)], res |-> "ok"]

\* file.persist_noclobber(&path) (json 124): the temporary file is linked at the
\* path unless a file is there already.
PersistNoClobber(store, name, data) ==
    IF store[name] = NoRec
    THEN [store |-> [store EXCEPT ![name] = Some(data)], res |-> "ok"]
    ELSE [store |-> store, res |-> "collision"]

\* An INSERT that replaces the row of an existing name.
InsertClanReplaces(store, name, data) ==
    [store |-> [store EXCEPT ![name] = Some(data)], res |-> "ok"]

\* INSERT INTO clans (postgres 299-309): name is the primary key (74-77).
InsertClan(store, name, data) ==
    IF store[name] = NoRec
    THEN [store |-> [store EXCEPT ![name] = Some(data)], res |-> "ok"]
    ELSE [store |-> store, res |-> "collision"]

\* ClanStorage::new(name, ..) with the creator as its master (156-160).
ClanStorageOf(p) == [name |-> attempt[p].name, data |-> p]

\* No attempt through clan_system is in the middle of its handler.
ClanSystemFree ==
    \A q \in Attempts :
        attempt[q].via = "clan_system" => attempt[q].pc \in { "idle", "done" }

\* A task calls create_clan of the adapter for a clan of this name.
StartAdapterCreate(p, name) ==
    /\ attempt[p].pc = "idle"
    /\ attempt' = [attempt EXCEPT ![p] =
                      [NoAttempt EXCEPT !.via = "adapter", !.name = name,
                                        !.pc = "create_clan"]]
    /\ UNCHANGED <<backend, clans>>
    /\ UNCHANGED <<schedVars, saveVars, storeVars, fileVars, loginVars, hashVars, vfsVars, botVars, guildVars, worldVars>>

\* clan_system takes a ClanEvent::Create (92-124): a creator who is in a clan gets
\* Failed, one below level 30 gets UnmetCondition.
StartClanSystemCreate(p, name, member, level30) ==
    /\ attempt[p].pc = "idle"
    /\ ClanSystemFree
    /\ attempt' = [attempt EXCEPT ![p] =
          [NoAttempt EXCEPT
              !.via = "clan_system", !.name = name,
              !.pc = IF member \/ ~level30 THEN "done" ELSE "clan_exists",
              !.msg = IF member THEN "Failed"
                      ELSE IF ~level30 THEN "UnmetCondition" ELSE "none"]]
    /\ UNCHANGED <<backend, clans>>
    /\ UNCHANGED <<schedVars, saveVars, storeVars, fileVars, loginVars, hashVars, vfsVars, botVars, guildVars, worldVars>>

\* clan_system asks whether the name exists, an error counting as "no" (127-141),
\* and then takes the 1000000 Zuly (143-153).
ClanExistsCheck(p, io, rich) ==
    /\ attempt[p].pc = "clan_exists"
    /\ LET exists == IF io THEN FALSE ELSE ClanExists(clans, attempt[p].name) IN
        attempt' = [attempt EXCEPT ![p] =
            IF exists THEN [@ EXCEPT !.pc = "done", !.msg = "NameExists"]
            ELSE IF ~rich THEN [@ EXCEPT !.pc = "done", !.msg = "UnmetCondition"]
            ELSE [@ EXCEPT !.pc = "create_clan", !.paid = TRUE]]
    /\ UNCHANGED <<backend, clans>>
    /\ UNCHANGED <<schedVars, saveVars, storeVars, fileVars, loginVars, hashVars, vfsVars, botVars, guildVars, worldVars>>

\* create_clan has returned res: the adapter's caller has its result, and
\* clan_system refunds the money and sends Failed on an error, or spawns the clan
\* (160-218).
Returned(a, res) ==
    IF a.via = "clan_system"
    THEN [a EXCEPT !.pc = "done", !.res = res,
                   !.msg = IF res = "ok" THEN "Created" ELSE "Failed",
                   !.paid = (res = "ok")]
    ELSE [a EXCEPT !.pc = "done", !.res = res]

\* json create_clan, first part (114-123): the directory, the JSON text and the
\* temporary file, any of which may fail.
WriteTempFile(p, io) ==
    /\ backend = "json"
    /\ attempt[p].pc = "create_clan"
    /\ attempt' = [attempt EXCEPT ![p] =
                      IF io THEN Returned(@, "io") ELSE [@ EXCEPT !.pc = "persist"]]
    /\ UNCHANGED <<backend, clans>>
    /\ UNCHANGED <<schedVars, saveVars, storeVars, fileVars, loginVars, hashVars, vfsVars, botVars, guildVars, worldVars>>

\* json create_clan, second part (124-126).
PersistTempFile(p) ==
    /\ backend = "json"
    /\ attempt[p].pc = "persist"
    /\ LET r == PersistNoClobber(clans, attempt[p].name, ClanStorageOf(p)) IN
        /\ clans' = r.store
        /\ attempt' = [attempt EXCEPT ![p] = Returned(@, r.res)]
    /\ UNCHANGED backend
    /\ UNCHANGED <<schedVars, saveVars, storeVars, fileVars, loginVars, hashVars, vfsVars, botVars, guildVars, worldVars>>

\* postgres create_clan (298-312): one INSERT statement.
ExecuteInsert(p, io) ==
    /\ backend = "postgres"
    /\ attempt[p].pc = "create_clan"
    /\ LET r == IF io THEN [store |-> clans, res |-> "io"]
                      ELSE InsertClan(clans, attempt[p].name, ClanStorageOf(p)) IN
        /\ clans' = r.store
        /\ attempt' = [attempt EXCEPT ![p] = Returned(@, r.res)]
    /\ UNCHANGED backend
    /\ UNCHANGED <<schedVars, saveVars, storeVars, fileVars, loginVars, hashVars, vfsVars, botVars, guildVars, worldVars>>

ClanNext ==
    \/ \E p \in Attempts, name \in ClanNames : StartAdapterCreate(p, name)
    \/ \E p \in Attempts, name \in ClanNames, member \in BOOLEAN, level30 \in BOOLEAN :
            StartClanSystemCreate(p, name, member, level30)
    \/ \E p \in Attempts, io \in BOOLEAN, rich \in BOOLEAN : ClanExistsCheck(p, io, rich)
    \/ \E p \in Attempts, io \in BOOLEAN : WriteTempFile(p, io)
    \/ \E p \in Attempts : PersistTempFile(p)
    \/ \E p \in Attempts, io \in BOOLEAN : ExecuteInsert(p, io)

(***************************************************************************)
(* The storage adapters (storage_adapter.rs): JsonStorageAdapter keeps one *)
(* file per record, PostgresStorageAdapter one row per record.  A table is *)
(* a function from keys to Options.  Every operation takes the table, its  *)
(* arguments and io, whether the file system or the database fails during  *)
(* the call, and yields the table afterwards and the result returned.      *)
(***************************************************************************)
AccountNames == { "alice", "bob" }
Passwords == { "pw1", "pw2" }
Hashes == { "h1", "h2" }
CharacterNames == { "Arua", "Hebarn" }

\* The results of the operations: Ok(()), Ok(None), Ok(Some(v)), Ok(bool), and
\* the errors.
Ok == [tag |-> "ok", val |-> {}]
OkNone == [tag |-> "none", val |-> {}]
OkSome(v) == [tag |-> "some", val |-> { v }]
OkBool(b) == [tag |-> IF b THEN "true" ELSE "false", val |-> {}]
Err(e) == [tag |-> e, val |-> {}]
IsErr(r) == r.tag \in { "io", "conflict", "InvalidPassword", "NotFound" }

Upsert(tbl, k, v) == [tbl EXCEPT ![k] = Some(v)]

\* X::save(): the record is written to a temporary file that is renamed over the
\* file of its key (the storage records of the JSON backend).
StorageSave(tbl, k, v, io) ==
    IF io THEN [tbl |-> tbl, res |-> Err("io")]
          ELSE [tbl |-> Upsert(tbl, k, v), res |-> Ok]

\* X::try_load(): the record in the file of the key, or an error.
StorageTryLoad(tbl, k, io) ==
    IF io THEN Err("io")
    ELSE IF tbl[k] = NoRec THEN Err("NotFound")
    ELSE OkSome(ValueOf(tbl[k]))

\* AccountStorage::try_load(name, password): the account of that name, if the
\* password presented is the stored one.
AccountStorageTryLoad(tbl, name, password, io) ==
    LET r == StorageTryLoad(tbl, name, io) IN
    IF r.tag = "some" /\ ValueOf(r.val).password_md5_sha256 # password.md5
    THEN Err("InvalidPassword")
    ELSE r

\* ---- JsonStorageAdapter (json_adapter.rs)
JsonCreateAccount(tbl, account, io) == StorageSave(tbl, account.name, account, io)

JsonLoadAccount(tbl, name, password_hash, io) ==
    LET r == AccountStorageTryLoad(tbl, name, [md5 |-> password_hash], io) IN
    [tbl |-> tbl, res |-> IF r.tag = "some" THEN r ELSE OkNone]

JsonSaveAccount(tbl, account, io) == StorageSave(tbl, account.name, account, io)

JsonCreateCharacter(tbl, character, io) ==
    StorageSave(tbl, character.name, character, io)

JsonLoadCharacter(tbl, name, io) ==
    LET r == StorageTryLoad(tbl, name, io) IN
    [tbl |-> tbl, res |-> IF r.tag = "some" THEN r ELSE OkNone]

JsonSaveCharacter(tbl, character, io) ==
    StorageSave(tbl, character.name, character, io)

\* path.exists() is false when the file cannot be examined.
JsonDeleteCharacter(tbl, name, io) ==
    IF tbl[name] = NoRec THEN [tbl |-> tbl, res |-> Ok]
    ELSE IF io THEN [tbl |-> tbl, res |-> Err("io")]
    ELSE [tbl |-> [tbl EXCEPT ![name] = NoRec], res |-> Ok]

JsonCharacterExists(tbl, name, io) ==
    [tbl |-> tbl, res |-> OkBool(~io /\ tbl[name] # NoRec)]

JsonCreateBank(tbl, account_name, bank, io) == StorageSave(tbl, account_name, bank, io)

JsonLoadBank(tbl, account_name, io) ==
    LET r == StorageTryLoad(tbl, account_name, io) IN
    [tbl |-> tbl, res |-> IF r.tag = "some" THEN r ELSE OkNone]

JsonSaveBank(tbl, account_name, bank, io) == StorageSave(tbl, account_name, bank, io)

JsonCreateClan(tbl, clan, io) ==
    IF io THEN [tbl |-> tbl, res |-> Err("io")]
    ELSE LET r == PersistNoClobber(tbl, clan.name, clan) IN
         [tbl |-> r.store, res |-> IF r.res = "ok" THEN Ok ELSE Err("conflict")]

JsonLoadClan(tbl, name, io) ==
    [tbl |-> tbl,
     res |-> IF tbl[name] = NoRec THEN OkNone
             ELSE IF io THEN Err("io")
             ELSE OkSome(ValueOf(tbl[name]))]

\* file.persist(&path) (151): the temporary file replaces the file at the path.
JsonSaveClan(tbl, clan, io) ==
    IF io THEN [tbl |-> tbl, res |-> Err("io")]
          ELSE [tbl |-> Upsert(tbl, clan.name, clan), res |-> Ok]

JsonClanExists(tbl, name, io) ==
    [tbl |-> tbl, res |-> OkBool(~io /\ ClanExists(tbl, name))]

\* ---- PostgresStorageAdapter (postgres_adapter.rs)
\* INSERT INTO t VALUES (..): fails when a row has the primary key.
PgInsert(tbl, k, v, io) ==
    IF io THEN [tbl |-> tbl, res |-> Err("io")]
    ELSE IF tbl[k] # NoRec THEN [tbl |-> tbl, res |-> Err("conflict")]
    ELSE [tbl |-> Upsert(tbl, k, v), res |-> Ok]

\* INSERT without ON CONFLICT .. DO UPDATE: an existing row is kept as it is.
PgInsertOrKeep(tbl, k, v, io) ==
    IF io THEN [tbl |-> tbl, res |-> Err("io")]
    ELSE IF tbl[k] # NoRec THEN [tbl |-> tbl, res |-> Ok]
    ELSE [tbl |-> Upsert(tbl, k, v), res |-> Ok]

\* INSERT INTO t VALUES (..) ON CONFLICT (key) DO UPDATE SET ..
PgInsertOrUpdate(tbl, k, v, io) ==
    IF io THEN [tbl |-> tbl, res |-> Err("io")]
          ELSE [tbl |-> Upsert(tbl, k, v), res |-> Ok]

\* SELECT .. WHERE key = $1, fetch_optional.
PgSelect(tbl, k, io) ==
    [tbl |-> tbl,
     res |-> IF io THEN Err("io")
             ELSE IF tbl[k] = NoRec THEN OkNone
             ELSE OkSome(ValueOf(tbl[k]))]

PgCreateAccount(tbl, account, io) == PgInsert(tbl, account.name, account, io)

PgLoadAccount(tbl, name, password_hash, io) ==
    LET r == PgSelect(tbl, name, io) IN
    IF r.res.tag = "some" /\ ValueOf(r.res.val).password_md5_sha256 # password_hash
    THEN [tbl |-> tbl, res |-> Err("InvalidPassword")]
    ELSE r

PgSaveAccount(tbl, account, io) == PgInsertOrUpdate(tbl, account.name, account, io)

PgCreateCharacter(tbl, character, io) == PgInsert(tbl, character.name, character, io)

PgLoadCharacter(tbl, name, io) == PgSelect(tbl, name, io)

PgSaveCharacter(tbl, character, io) ==
    PgInsertOrUpdate(tbl, character.name, character, io)

PgDeleteCharacter(tbl, name, io) ==
    IF io THEN [tbl |-> tbl, res |-> Err("io")]
          ELSE [tbl |-> [tbl EXCEPT ![name] = NoRec], res |-> Ok]

PgCharacterExists(tbl, name, io) ==
    [tbl |-> tbl, res |-> IF io THEN Err("io") ELSE OkBool(tbl[name] # NoRec)]

PgCreateBank(tbl, account_name, bank, io) == PgInsert(tbl, account_name, bank, io)

PgLoadBank(tbl, account_name, io) == PgSelect(tbl, account_name, io)

PgSaveBank(tbl, account_name, bank, io) == PgInsertOrUpdate(tbl, account_name, bank, io)

PgCreateClan(tbl, clan, io) ==
    IF io THEN [tbl |-> tbl, res |-> Err("io")]
    ELSE LET r == InsertClan(tbl, clan.name, clan) IN
         [tbl |-> r.store, res |-> IF r.res = "ok" THEN Ok ELSE Err("conflict")]

PgLoadClan(tbl, name, io) == PgSelect(tbl, name, io)

PgSaveClan(tbl, clan, io) == PgInsertOrUpdate(tbl, clan.name, clan, io)

PgClanExists(tbl, name, io) ==
    [tbl |-> tbl, res |-> IF io THEN Err("io") ELSE OkBool(ClanExists(tbl, name))]

(***************************************************************************)
(* StorageService (storage_service.rs), the resource the systems use: each *)
(* method passes its arguments to the configured adapter.                  *)
(***************************************************************************)
create_account(tbl, account, io) ==
    IF backend = "json" THEN JsonCreateAccount(tbl, account, io)
                        ELSE PgCreateAccount(tbl, account, io)

load_account(tbl, name, password_hash, io) ==
    IF backend = "json" THEN JsonLoadAccount(tbl, name, password_hash, io)
                        ELSE PgLoadAccount(tbl, name, password_hash, io)

save_account(tbl, account, io) ==
    IF backend = "json" THEN JsonSaveAccount(tbl, account, io)
                        ELSE PgSaveAccount(tbl, account, io)

create_character(tbl, character, io) ==
    IF backend = "json" THEN JsonCreateCharacter(tbl, character, io)
                        ELSE PgCreateCharacter(tbl, character, io)

load_character(tbl, name, io) ==
    IF backend = "json" THEN JsonLoadCharacter(tbl, name, io)
                        ELSE PgLoadCharacter(tbl, name, io)

save_character(tbl, character, io) ==
    IF backend = "json" THEN JsonSaveCharacter(tbl, character, io)
                        ELSE PgSaveCharacter(tbl, character, io)

delete_character(tbl, name, io) ==
    IF backend = "json" THEN JsonDeleteCharacter(tbl, name, io)
                        ELSE PgDeleteCharacter(tbl, name, io)

character_exists(tbl, name, io) ==
    IF backend = "json" THEN JsonCharacterExists(tbl, name, io)
                        ELSE PgCharacterExists(tbl, name, io)

create_bank(tbl, account_name, bank, io) ==
    IF backend = "json" THEN JsonCreateBank(tbl, account_name, bank, io)
                        ELSE PgCreateBank(tbl, account_name, bank, io)

load_bank(tbl, account_name, io) ==
    IF backend = "json" THEN JsonLoadBank(tbl, account_name, io)
                        ELSE PgLoadBank(tbl, account_name, io)

save_bank(tbl, account_name, bank, io) ==
    IF backend = "json" THEN JsonSaveBank(tbl, account_name, bank, io)
                        ELSE PgSaveBank(tbl, account_name, bank, io)

create_clan(tbl, clan, io) ==
    IF backend = "json" THEN JsonCreateClan(tbl, clan, io)
                        ELSE PgCreateClan(tbl, clan, io)

load_clan(tbl, name, io) ==
    IF backend = "json" THEN JsonLoadClan(tbl, name, io)
                        ELSE PgLoadClan(tbl, name, io)

save_clan(tbl, clan, io) ==
    IF backend = "json" THEN JsonSaveClan(tbl, clan, io)
                        ELSE PgSaveClan(tbl, clan, io)

clan_exists(tbl, name, io) ==
    IF backend = "json" THEN JsonClanExists(tbl, name, io)
                        ELSE PgClanExists(tbl, name, io)

\* hash_password (service.rs 140-145), the same digest the systems compute
\* (world_server_system.rs 47-52): SHA-256 of the MD5 form of the password.
hash_password(password) ==
    CASE password = "pw1" -> "h1"
      [] password = "pw2" -> "h2"

\* The values of the records.
NameLists == { <<>>, <<"Arua">> }
AccountValues ==
    [name : AccountNames, password_md5_sha256 : Hashes, character_names : NameLists]
CharacterValues == [name : CharacterNames, data : Vals]
ClanValues == [name : ClanNames, data : Vals]

\* BankStorage::default().
DefaultBank == 0

\* The history of a call: fault is the number of the adapter call, among those
\* the caller makes, that fails (0: none).
Called(op, key, arg, hash, fault, pre, res, msg) ==
    [op |-> op, key |-> key, arg |-> arg, hash |-> hash, fault |-> fault,
     pre |-> pre, res |-> res, msg |-> msg]

NoCall == Called("none", "none", {}, "none", 0, {}, Ok, "none")

\* ---- accounts
CallCreateAccount(account, io) ==
    /\ scope = "account"
    /\ LET r == create_account(accounts, account, io) IN
        /\ accounts' = r.tbl
        /\ last' = Called("create_account", account.name, { account }, "none",
                          IF io THEN 1 ELSE 0, accounts[account.name], r.res, "none")
    /\ UNCHANGED <<scope, backend, characters, banks, clans, conn, requests>>
    /\ UNCHANGED <<schedVars, saveVars, attempt, fileVars, loginVars, hashVars, vfsVars, botVars, guildVars, worldVars>>

CallLoadAccount(name, password_hash, io) ==
    /\ scope = "account"
    /\ LET r == load_account(accounts, name, password_hash, io) IN
        /\ accounts' = r.tbl
        /\ last' = Called("load_account", name, {}, password_hash,
                          IF io THEN 1 ELSE 0, accounts[name], r.res, "none")
    /\ UNCHANGED <<scope, backend, characters, banks, clans, conn, requests>>
    /\ UNCHANGED <<schedVars, saveVars, attempt, fileVars, loginVars, hashVars, vfsVars, botVars, guildVars, worldVars>>

CallSaveAccount(account, io) ==
    /\ scope = "account"
    /\ LET r == save_account(accounts, account, io) IN
        /\ accounts' = r.tbl
        /\ last' = Called("save_account", account.name, { account }, "none",
                          IF io THEN 1 ELSE 0, accounts[account.name], r.res, "none")
    /\ UNCHANGED <<scope, backend, characters, banks, clans, conn, requests>>
    /\ UNCHANGED <<schedVars, saveVars, attempt, fileVars, loginVars, hashVars, vfsVars, botVars, guildVars, worldVars>>

\* The hashing facade's load_account (service.rs 37-43): no record is NotFound.
service_load_account(tbl, name, password, io) ==
    LET r == load_account(tbl, name, hash_password(password), io) IN
    [tbl |-> r.tbl, res |-> IF r.res.tag = "none" THEN Err("NotFound") ELSE r.res]

CallServiceLoadAccount(name, password, io) ==
    /\ scope = "account"
    /\ LET r == service_load_account(accounts, name, password, io) IN
        /\ accounts' = r.tbl
        /\ last' = Called("service_load_account", name, {}, hash_password(password),
                          IF io THEN 1 ELSE 0, accounts[name], r.res, "none")
    /\ UNCHANGED <<scope, backend, characters, banks, clans, conn, requests>>
    /\ UNCHANGED <<schedVars, saveVars, attempt, fileVars, loginVars, hashVars, vfsVars, botVars, guildVars, worldVars>>

\* ---- characters
CallCreateCharacter(character, io) ==
    /\ scope = "character"
    /\ LET r == create_character(characters, character, io) IN
        /\ characters' = r.tbl
        /\ last' = Called("create_character", character.name, { character }, "none",
                          IF io THEN 1 ELSE 0, characters[character.name], r.res, "none")
    /\ UNCHANGED <<scope, backend, accounts, banks, clans, conn, requests>>
    /\ UNCHANGED <<schedVars, saveVars, attempt, fileVars, loginVars, hashVars, vfsVars, botVars, guildVars, worldVars>>

CallLoadCharacter(name, io) ==
    /\ scope = "character"
    /\ LET r == load_character(characters, name, io) IN
        /\ characters' = r.tbl
        /\ last' = Called("load_character", name, {}, "none",
                          IF io THEN 1 ELSE 0, characters[name], r.res, "none")
    /\ UNCHANGED <<scope, backend, accounts, banks, clans, conn, requests>>
    /\ UNCHANGED <<schedVars, saveVars, attempt, fileVars, loginVars, hashVars, vfsVars, botVars, guildVars, worldVars>>

CallSaveCharacter(character, io) ==
    /\ scope = "character"
    /\ LET r == save_character(characters, character, io) IN
        /\ characters' = r.tbl
        /\ last' = Called("save_character", character.name, { character }, "none",
                          IF io THEN 1 ELSE 0, characters[character.name], r.res, "none")
    /\ UNCHANGED <<scope, backend, accounts, banks, clans, conn, requests>>
    /\ UNCHANGED <<schedVars, saveVars, attempt, fileVars, loginVars, hashVars, vfsVars, botVars, guildVars, worldVars>>

CallDeleteCharacter(name, io) ==
    /\ scope = "character"
    /\ LET r == delete_character(characters, name, io) IN
        /\ characters' = r.tbl
        /\ last' = Called("delete_character", name, {}, "none",
                          IF io THEN 1 ELSE 0, characters[name], r.res, "none")
    /\ UNCHANGED <<scope, backend, accounts, banks, clans, conn, requests>>
    /\ UNCHANGED <<schedVars, saveVars, attempt, fileVars, loginVars, hashVars, vfsVars, botVars, guildVars, worldVars>>

CallCharacterExists(name, io) ==
    /\ scope = "character"
    /\ LET r == character_exists(characters, name, io) IN
        /\ characters' = r.tbl
        /\ last' = Called("character_exists", name, {}, "none",
                          IF io THEN 1 ELSE 0, characters[name], r.res, "none")
    /\ UNCHANGED <<scope, backend, accounts, banks, clans, conn, requests>>
    /\ UNCHANGED <<schedVars, saveVars, attempt, fileVars, loginVars, hashVars, vfsVars, botVars, guildVars, worldVars>>

\* The names a client may ask for, and name.len().
RequestedNames == CharacterNames \cup { "Abc" }
NameLen(name) ==
    CASE name = "Arua"   -> 4
      [] name = "Hebarn" -> 6
      [] name = "Abc"    -> 3

\* character_creator.create(name, ..): the character as it is created.
NewCharacter(name) == [name |-> name, data |-> 0]

\* The handler with a limit of more than 5 names.
HandleCreateCharacterOver(account, name, valid, fault) ==
    LET Outcome(msg) ==
            [accs |-> accounts, chars |-> characters, account |-> account, msg |-> msg]
        ex   == character_exists(characters, name, fault = 1).res
        char_exists == IF IsErr(ex) THEN TRUE ELSE ex.tag = "true"
        cr   == create_character(characters, NewCharacter(name), fault = 2)
        pushed == [account EXCEPT !.character_names = Append(@, name)]
        sv   == save_account(accounts, pushed, fault = 3)
    IN
    IF Len(account.character_names) > 5 THEN Outcome("NoMoreSlots")
    ELSE IF NameLen(name) < 4 \/ NameLen(name) > 20 THEN Outcome("InvalidValue")
    ELSE IF char_exists THEN Outcome("AlreadyExists")
    ELSE IF ~valid THEN Outcome("InvalidValue")
    ELSE IF IsErr(cr.res) THEN Outcome("Failed")
    ELSE [accs |-> sv.tbl, chars |-> cr.tbl, account |-> pushed,
          msg |-> "CreateCharacterSuccess"]

\* ClientMessage::CreateCharacter in world_server_system (201-279).  valid says
\* whether the creator accepts gender, face and hair; fault is the adapter call
\* that fails: 1 character_exists, 2 create_character, 3 save_account.  The
\* outcome is the tables, the Account component and the message sent back.
HandleCreateCharacter(account, name, valid, fault) ==
    LET Outcome(msg) ==
            [accs |-> accounts, chars |-> characters, account |-> account, msg |-> msg]
        ex   == character_exists(characters, name, fault = 1).res
        char_exists == IF IsErr(ex) THEN TRUE ELSE ex.tag = "true"
        cr   == create_character(characters, NewCharacter(name), fault = 2)
        pushed == [account EXCEPT !.character_names = Append(@, name)]
        sv   == save_account(accounts, pushed, fault = 3)
    IN
    IF Len(account.character_names) >= 5 THEN Outcome("NoMoreSlots")
    ELSE IF NameLen(name) < 4 \/ NameLen(name) > 20 THEN Outcome("InvalidValue")
    ELSE IF char_exists THEN Outcome("AlreadyExists")
    ELSE IF ~valid THEN Outcome("InvalidValue")
    ELSE IF IsErr(cr.res) THEN Outcome("Failed")
    ELSE [accs |-> sv.tbl, chars |-> cr.tbl, account |-> pushed,
          msg |-> "CreateCharacterSuccess"]

WorldCreateCharacter(name, valid, fault) ==
    /\ scope = "world"
    /\ conn # NoRec
    /\ requests < MaxRequests
    /\ requests' = requests + 1
    /\ LET r == HandleCreateCharacter(ValueOf(conn), name, valid, fault) IN
        /\ accounts' = r.accs
        /\ characters' = r.chars
        /\ conn' = Some(r.account)
        /\ last' = Called("CreateCharacter", name, {}, "none", fault,
                          IF name \in CharacterNames THEN characters[name] ELSE NoRec,
                          Ok, r.msg)
    /\ UNCHANGED <<scope, backend, banks, clans>>
    /\ UNCHANGED <<schedVars, saveVars, attempt, fileVars, loginVars, hashVars, vfsVars, botVars, guildVars, worldVars>>

\* The hashing facade's create_character (service.rs 50-81): every failure is
\* CharacterCreatorError::InvalidName, the creator's own error apart.
service_create_character(account, name, valid, fault) ==
    LET Outcome(acc, msg) ==
            [accs |-> accounts, chars |-> characters, account |-> acc, msg |-> msg]
        ex   == character_exists(characters, name, fault = 1).res
        cr   == create_character(characters, NewCharacter(name), fault = 2)
        pushed == [account EXCEPT !.character_names = Append(@, name)]
        sv   == save_account(accounts, pushed, fault = 3)
    IN
    IF IsErr(ex) \/ ex.tag = "true" THEN Outcome(account, "InvalidName")
    ELSE IF ~valid THEN Outcome(account, "InvalidValue")
    ELSE IF IsErr(cr.res) THEN Outcome(account, "InvalidName")
    ELSE [accs |-> sv.tbl, chars |-> cr.tbl, account |-> pushed,
          msg |-> IF IsErr(sv.res) THEN "InvalidName" ELSE "Ok"]

CallServiceCreateCharacter(name, valid, fault) ==
    /\ scope = "world"
    /\ conn # NoRec
    /\ requests < MaxRequests
    /\ requests' = requests + 1
    /\ LET r == service_create_character(ValueOf(conn), name, valid, fault) IN
        /\ accounts' = r.accs
        /\ characters' = r.chars
        /\ conn' = Some(r.account)
        /\ last' = Called("service_create_character", name, {}, "none", fault,
                          characters[name], Ok, r.msg)
    /\ UNCHANGED <<scope, backend, banks, clans>>
    /\ UNCHANGED <<schedVars, saveVars, attempt, fileVars, loginVars, hashVars, vfsVars, botVars, guildVars, worldVars>>

\* ClientMessage::LoginRequest in login_server_authentication_system (38-104).
\* logged_in says whether login_tokens holds a token of the username; fault is
\* the adapter call that fails: 1 load_account, 2 create_account.  The outcome
\* is the table, the Account queued for the connection and the message sent.
HandleLoginRequest(username, password, logged_in, fault) ==
    LET password_hash == hash_password(password)
        ld == load_account(accounts, username, password_hash, fault = 1)
        account == [name |-> username, password_md5_sha256 |-> password_hash,
                    character_names |-> << >>]
        cr == create_account(ld.tbl, account, fault = 2)
    IN
    IF logged_in
    THEN [accs |-> accounts, account |-> NoRec, msg |-> "AlreadyLoggedIn"]
    ELSE IF ld.res.tag = "some"
    THEN [accs |-> ld.tbl, account |-> ld.res.val, msg |-> "LoginSuccess"]
    ELSE IF ld.res.tag = "none"
    THEN IF IsErr(cr.res)
         THEN [accs |-> cr.tbl, account |-> NoRec, msg |-> "InvalidAccount"]
         ELSE [accs |-> cr.tbl, account |-> Some(account), msg |-> "LoginSuccess"]
    ELSE IF ld.res.tag = "InvalidPassword"
    THEN [accs |-> ld.tbl, account |-> NoRec, msg |-> "InvalidPassword"]
    ELSE [accs |-> ld.tbl, account |-> NoRec, msg |-> "Failed"]

\* The login connection has no Account yet and sends a LoginRequest.
LoginRequest(username, password, logged_in, fault) ==
    /\ scope = "login"
    /\ conn = NoRec
    /\ requests < MaxRequests
    /\ requests' = requests + 1
    /\ LET r == HandleLoginRequest(username, password, logged_in, fault) IN
        /\ accounts' = r.accs
        /\ conn' = r.account
        /\ last' = Called("LoginRequest", username, {}, hash_password(password), fault,
                          accounts[username], Ok, r.msg)
    /\ UNCHANGED <<scope, backend, characters, banks, clans>>
    /\ UNCHANGED <<schedVars, saveVars, attempt, fileVars, loginVars, hashVars, vfsVars, botVars, guildVars, worldVars>>

\* ---- banks
CallCreateBank(account_name, bank, io) ==
    /\ scope = "bank"
    /\ LET r == create_bank(banks, account_name, bank, io) IN
        /\ banks' = r.tbl
        /\ last' = Called("create_bank", account_name, { bank }, "none",
                          IF io THEN 1 ELSE 0, banks[account_name], r.res, "none")
    /\ UNCHANGED <<scope, backend, accounts, characters, clans, conn, requests>>
    /\ UNCHANGED <<schedVars, saveVars, attempt, fileVars, loginVars, hashVars, vfsVars, botVars, guildVars, worldVars>>

CallLoadBank(account_name, io) ==
    /\ scope = "bank"
    /\ LET r == load_bank(banks, account_name, io) IN
        /\ banks' = r.tbl
        /\ last' = Called("load_bank", account_name, {}, "none",
                          IF io THEN 1 ELSE 0, banks[account_name], r.res, "none")
    /\ UNCHANGED <<scope, backend, accounts, characters, clans, conn, requests>>
    /\ UNCHANGED <<schedVars, saveVars, attempt, fileVars, loginVars, hashVars, vfsVars, botVars, guildVars, worldVars>>

CallSaveBank(account_name, bank, io) ==
    /\ scope = "bank"
    /\ LET r == save_bank(banks, account_name, bank, io) IN
        /\ banks' = r.tbl
        /\ last' = Called("save_bank", account_name, { bank }, "none",
                          IF io THEN 1 ELSE 0, banks[account_name], r.res, "none")
    /\ UNCHANGED <<scope, backend, accounts, characters, clans, conn, requests>>
    /\ UNCHANGED <<schedVars, saveVars, attempt, fileVars, loginVars, hashVars, vfsVars, botVars, guildVars, worldVars>>

\* The hashing facade's load_bank (service.rs 103-112): when there is no bank the
\* default one is created and returned.  fault: 1 load_bank, 2 create_bank.
service_load_bank(tbl, account_name, fault) ==
    LET r == load_bank(tbl, account_name, fault = 1)
        c == create_bank(tbl, account_name, DefaultBank, fault = 2)
    IN
    IF r.res.tag # "none" THEN r
    ELSE IF IsErr(c.res) THEN c
    ELSE [tbl |-> c.tbl, res |-> OkSome(DefaultBank)]

CallServiceLoadBank(account_name, fault) ==
    /\ scope = "bank"
    /\ LET r == service_load_bank(banks, account_name, fault) IN
        /\ banks' = r.tbl
        /\ last' = Called("service_load_bank", account_name, {}, "none", fault,
                          banks[account_name], r.res, "none")
    /\ UNCHANGED <<scope, backend, accounts, characters, clans, conn, requests>>
    /\ UNCHANGED <<schedVars, saveVars, attempt, fileVars, loginVars, hashVars, vfsVars, botVars, guildVars, worldVars>>

\* ---- clans
CallCreateClan(clan, io) ==
    /\ scope = "clan"
    /\ LET r == create_clan(clans, clan, io) IN
        /\ clans' = r.tbl
        /\ last' = Called("create_clan", clan.name, { clan }, "none",
                          IF io THEN 1 ELSE 0, clans[clan.name], r.res, "none")
    /\ UNCHANGED <<scope, backend, accounts, characters, banks, conn, requests>>
    /\ UNCHANGED <<schedVars, saveVars, attempt, fileVars, loginVars, hashVars, vfsVars, botVars, guildVars, worldVars>>

CallLoadClan(name, io) ==
    /\ scope = "clan"
    /\ LET r == load_clan(clans, name, io) IN
        /\ clans' = r.tbl
        /\ last' = Called("load_clan", name, {}, "none",
                          IF io THEN 1 ELSE 0, clans[name], r.res, "none")
    /\ UNCHANGED <<scope, backend, accounts, characters, banks, conn, requests>>
    /\ UNCHANGED <<schedVars, saveVars, attempt, fileVars, loginVars, hashVars, vfsVars, botVars, guildVars, worldVars>>

CallSaveClan(clan, io) ==
    /\ scope = "clan"
    /\ LET r == save_clan(clans, clan, io) IN
        /\ clans' = r.tbl
        /\ last' = Called("save_clan", clan.name, { clan }, "none",
                          IF io THEN 1 ELSE 0, clans[clan.name], r.res, "none")
    /\ UNCHANGED <<scope, backend, accounts, characters, banks, conn, requests>>
    /\ UNCHANGED <<schedVars, saveVars, attempt, fileVars, loginVars, hashVars, vfsVars, botVars, guildVars, worldVars>>

CallClanExists(name, io) ==
    /\ scope = "clan"
    /\ LET r == clan_exists(clans, name, io) IN
        /\ clans' = r.tbl
        /\ last' = Called("clan_exists", name, {}, "none",
                          IF io THEN 1 ELSE 0, clans[name], r.res, "none")
    /\ UNCHANGED <<scope, backend, accounts, characters, banks, conn, requests>>
    /\ UNCHANGED <<schedVars, saveVars, attempt, fileVars, loginVars, hashVars, vfsVars, botVars, guildVars, worldVars>>

StoreNext ==
    \/ \E a \in AccountValues, io \in BOOLEAN : CallCreateAccount(a, io)
    \/ \E n \in AccountNames, h \in Hashes, io \in BOOLEAN : CallLoadAccount(n, h, io)
    \/ \E a \in AccountValues, io \in BOOLEAN : CallSaveAccount(a, io)
    \/ \E n \in AccountNames, pw \in Passwords, io \in BOOLEAN :
            CallServiceLoadAccount(n, pw, io)
    \/ \E c \in CharacterValues, io \in BOOLEAN : CallCreateCharacter(c, io)
    \/ \E n \in CharacterNames, io \in BOOLEAN : CallLoadCharacter(n, io)
    \/ \E c \in CharacterValues, io \in BOOLEAN : CallSaveCharacter(c, io)
    \/ \E n \in CharacterNames, io \in BOOLEAN : CallDeleteCharacter(n, io)
    \/ \E n \in CharacterNames, io \in BOOLEAN : CallCharacterExists(n, io)
    \/ \E n \in RequestedNames, valid \in BOOLEAN, fault \in 0 .. 3 :
            WorldCreateCharacter(n, valid, fault)
    \/ \E n \in CharacterNames, valid \in BOOLEAN, fault \in 0 .. 3 :
            CallServiceCreateCharacter(n, valid, fault)
    \/ \E n \in AccountNames, pw \in Passwords, logged_in \in BOOLEAN, fault \in 0 .. 2 :
            LoginRequest(n, pw, logged_in, fault)
    \/ \E n \in AccountNames, b \in Vals, io \in BOOLEAN : CallCreateBank(n, b, io)
    \/ \E n \in AccountNames, io \in BOOLEAN : CallLoadBank(n, io)
    \/ \E n \in AccountNames, b \in Vals, io \in BOOLEAN : CallSaveBank(n, b, io)
    \/ \E n \in AccountNames, fault \in 0 .. 2 : CallServiceLoadBank(n, fault)
    \/ \E c \in ClanValues, io \in BOOLEAN : CallCreateClan(c, io)
    \/ \E n \in ClanNames, io \in BOOLEAN : CallLoadClan(n, io)
    \/ \E c \in ClanValues, io \in BOOLEAN : CallSaveClan(c, io)
    \/ \E n \in ClanNames, io \in BOOLEAN : CallClanExists(n, io)

(***************************************************************************)
(* clan_system (clan_system.rs 80-553) and its ClanEvents: Create events of *)
(* one creator, and AddLevel, AddMoney and AddPoints events of one clan.    *)
(* The events of a run are read in order; the commands that the system      *)
(* queues (spawn, insert) are applied after it has run.                    *)
(***************************************************************************)
\* Money(1000000) (143).
ClanCreationFee == 1000000
\* creator.level.level < 30 (115).
ClanCreationLevel == 30

NoDelta == [neg |-> FALSE, mag |-> << >>]
CreateEvent(name) == [kind |-> "Create", name |-> name, delta |-> NoDelta]
NoGuildEvent ==
    [kind |-> "none", name |-> "none", delta |-> NoDelta, fault |-> 0,
     creator |-> {}, clans |-> {}, cmds |-> << >>, guild |-> {}, saves |-> 0,
     notes |-> 0, msg |-> "none"]

\* inventory.try_take_money(Money(1000000)): the money left, if it is enough.
TryTakeMoney(money, fee) == IF money >= fee THEN Some(money - fee) ELSE NoRec

\* A failed creation that gives nothing back.
RefundNothing(money) == 0

\* creator.inventory.try_add_money(money) (176): the money taken is added back.
RefundOf(money) == money

\* ClanEvent::Create (92-219).  fault is the adapter call that fails:
\* 1 clan_exists, 2 create_clan.  The outcome is the money of the creator, the
\* store, the commands queued and the message sent to the creator.
HandleClanCreate(name, fault) ==
    LET Rejected(msg) ==
            [money |-> creator.money, clans |-> clans, cmds |-> guildCmds, msg |-> msg]
        ex     == clan_exists(clans, name, fault = 1).res
        exists == IF IsErr(ex) THEN FALSE ELSE ex.tag = "true"
        taken  == TryTakeMoney(creator.money, ClanCreationFee)
        cr     == create_clan(clans, [name |-> name, data |-> << "creator" >>], fault = 2)
    IN
    IF creator.clan_membership # NoRec THEN Rejected("Failed")
    ELSE IF creator.level < ClanCreationLevel THEN Rejected("UnmetCondition")
    ELSE IF exists THEN Rejected("NameExists")
    ELSE IF taken = NoRec THEN Rejected("UnmetCondition")
    ELSE IF IsErr(cr.res)
    THEN [money |-> ValueOf(taken) + RefundOf(ClanCreationFee), clans |-> cr.tbl,
          cmds |-> guildCmds, msg |-> "Failed"]
    ELSE [money |-> ValueOf(taken), clans |-> cr.tbl,
          cmds |-> Append(guildCmds, name), msg |-> "Created"]

\* An earlier system of the step sends a ClanEvent::Create of the creator.
SendClanCreate(name) ==
    /\ guildScope = "create"
    /\ guildPc = "sending"
    /\ guildStep < MaxGuildSteps
    /\ Len(guildEvents) < MaxGuildEvents
    /\ guildEvents' = Append(guildEvents, CreateEvent(name))
    /\ UNCHANGED <<guildScope, guildPc, guildStep, creator, guildCmds, clanEntities,
                   guild, guildSaves, guildNotes, guildLast>>
    /\ UNCHANGED clanVars
    /\ UNCHANGED <<schedVars, saveVars, storeVars, fileVars, loginVars, hashVars, vfsVars, botVars, worldVars>>

\* clan_system starts to read the events of the step (90).
RunClanSystem ==
    /\ guildPc = "sending"
    /\ guildStep < MaxGuildSteps
    /\ guildPc' = "running"
    /\ UNCHANGED <<guildScope, guildStep, guildEvents, creator, guildCmds, clanEntities,
                   guild, guildSaves, guildNotes, guildLast>>
    /\ UNCHANGED clanVars
    /\ UNCHANGED <<schedVars, saveVars, storeVars, fileVars, loginVars, hashVars, vfsVars, botVars, worldVars>>

\* clan_system reads a ClanEvent::Create.
ClanCreate(fault) ==
    /\ guildPc = "running"
    /\ guildEvents # << >>
    /\ Head(guildEvents).kind = "Create"
    /\ LET ev == Head(guildEvents)
           r == HandleClanCreate(ev.name, fault)
       IN /\ creator' = [creator EXCEPT !.money = r.money]
          /\ clans' = r.clans
          /\ guildCmds' = r.cmds
          /\ guildLast' = [NoGuildEvent EXCEPT
                              !.kind = "Create", !.name = ev.name, !.fault = fault,
                              !.creator = { creator }, !.clans = { clans },
                              !.cmds = guildCmds, !.msg = r.msg]
    /\ guildEvents' = Tail(guildEvents)
    /\ UNCHANGED <<guildScope, guildPc, guildStep, clanEntities, guild, guildSaves,
                   guildNotes>>
    /\ UNCHANGED <<backend, attempt>>
    /\ UNCHANGED <<schedVars, saveVars, storeVars, fileVars, loginVars, hashVars, vfsVars, botVars, worldVars>>

\* clan_system has read every event: the commands are applied in the order in
\* which they were queued, each spawning its Clan and inserting the
\* ClanMembership of the creator (188-205).
ApplyClanCommands ==
    /\ guildPc = "running"
    /\ guildEvents = << >>
    /\ clanEntities' = clanEntities \o guildCmds
    /\ creator' = IF guildCmds = << >> THEN creator
                  ELSE [creator EXCEPT !.clan_membership = Some(guildCmds[Len(guildCmds)])]
    /\ guildCmds' = << >>
    /\ guildPc' = "sending"
    /\ guildStep' = guildStep + 1
    /\ UNCHANGED <<guildScope, guildEvents, guild, guildSaves, guildNotes, guildLast>>
    /\ UNCHANGED clanVars
    /\ UNCHANGED <<schedVars, saveVars, storeVars, fileVars, loginVars, hashVars, vfsVars, botVars, worldVars>>

\* ---- AddLevel, AddMoney, AddPoints.  An unsigned integer is the sequence of
\* its 16-bit limbs, least significant first: two limbs for a u32, four for a
\* u64.  A signed integer is a sign and the limbs of its magnitude.
Limb == 65536
Signed(neg, mag) == [neg |-> neg, mag |-> mag]
IsZero(v) == \A i \in DOMAIN v : v[i] = 0

RECURSIVE AddLimbs(_, _, _)
\* a + b + carry, and the carry out of the most significant limb.
AddLimbs(a, b, carry) ==
    IF a = << >> THEN [limbs |-> << >>, carry |-> carry]
    ELSE LET sum == Head(a) + Head(b) + carry
             r == AddLimbs(Tail(a), Tail(b), sum \div Limb)
         IN [limbs |-> << sum % Limb >> \o r.limbs, carry |-> r.carry]

RECURSIVE SubLimbs(_, _, _)
\* a - b - borrow, and the borrow out of the most significant limb.
SubLimbs(a, b, borrow) ==
    IF a = << >> THEN [limbs |-> << >>, carry |-> borrow]
    ELSE LET diff == Head(a) - Head(b) - borrow
             r == SubLimbs(Tail(a), Tail(b), IF diff < 0 THEN 1 ELSE 0)
         IN [limbs |-> << IF diff < 0 THEN diff + Limb ELSE diff >> \o r.limbs,
             carry |-> r.carry]

RECURSIVE LimbsLess(_, _)
\* a < b, for two sequences of the same length.
LimbsLess(a, b) ==
    IF a = << >> THEN FALSE
    ELSE IF a[Len(a)] # b[Len(b)] THEN a[Len(a)] < b[Len(b)]
    ELSE LimbsLess(SubSeq(a, 1, Len(a) - 1), SubSeq(b, 1, Len(b) - 1))

\* An addition that keeps the low bits of a result that is out of range.
WrappingAddSigned(v, d) ==
    Some(IF d.neg THEN SubLimbs(v, d.mag, 0).limbs ELSE AddLimbs(v, d.mag, 0).limbs)

\* u32::checked_add_signed, u64::checked_add_signed (337, 408): None if the
\* result is below 0 or above the maximum.
CheckedAddSigned(v, d) ==
    LET r == IF d.neg THEN SubLimbs(v, d.mag, 0) ELSE AddLimbs(v, d.mag, 0)
    IN IF r.carry = 1 THEN NoRec ELSE Some(r.limbs)

\* NonZeroU32::new (338): None for 0.
NonZeroU32New(v) == IF IsZero(v) THEN NoRec ELSE Some(v)

\* The magnitudes of i64::MAX and of i64::MIN.
MaxI64 == << 65535, 65535, 65535, 32767 >>
MinI64 == << 0, 0, 0, 32768 >>
FitsI64(neg, mag) == mag[4] < 32768 \/ (neg /\ mag = MinI64)

\* i64::checked_add (374): None if the sum is not an i64.
CheckedAdd(a, b) ==
    IF a.neg = b.neg
    THEN LET r == AddLimbs(a.mag, b.mag, 0)
         IN IF r.carry = 1 \/ ~FitsI64(a.neg, r.limbs) THEN NoRec
            ELSE Some(Signed(a.neg, r.limbs))
    ELSE IF LimbsLess(a.mag, b.mag)
    THEN Some(Signed(b.neg, SubLimbs(b.mag, a.mag, 0).limbs))
    ELSE LET m == SubLimbs(a.mag, b.mag, 0).limbs
         IN Some(Signed(a.neg /\ ~IsZero(m), m))

\* The levels, money and points of the clan, and the amounts of the events, at
\* the ends of their ranges.
Levels == { << 1, 0 >>, << 2, 0 >>, << 65535, 65535 >> }
LevelDeltas ==
    { Signed(FALSE, << 1, 0 >>), Signed(TRUE, << 1, 0 >>), Signed(TRUE, << 2, 0 >>),
      Signed(FALSE, << 65535, 32767 >>), Signed(TRUE, << 0, 32768 >>) }
Moneys == { Signed(FALSE, << 0, 0, 0, 0 >>), Signed(FALSE, MaxI64), Signed(TRUE, MinI64) }
Points == { << 0, 0, 0, 0 >>, << 65535, 65535, 65535, 65535 >> }
WideDeltas ==
    { Signed(FALSE, << 1, 0, 0, 0 >>), Signed(TRUE, << 1, 0, 0, 0 >>),
      Signed(FALSE, MaxI64), Signed(TRUE, MinI64) }

\* The clan after a ClanEvent::AddLevel, AddMoney or AddPoints (331-425), None
\* if the event changes nothing.
HandleClanAdd(clan, ev) ==
    LET new_level == IF CheckedAddSigned(clan.level, ev.delta) = NoRec THEN NoRec
                     ELSE NonZeroU32New(ValueOf(CheckedAddSigned(clan.level, ev.delta)))
        new_money == CheckedAdd(clan.money, ev.delta)
        new_points == CheckedAddSigned(clan.points, ev.delta)
    IN CASE ev.kind = "AddLevel" ->
              IF new_level = NoRec THEN NoRec
              ELSE Some([clan EXCEPT !.level = ValueOf(new_level)])
         [] ev.kind = "AddMoney" ->
              IF new_money = NoRec THEN NoRec
              ELSE Some([clan EXCEPT !.money = ValueOf(new_money)])
         [] ev.kind = "AddPoints" ->
              IF new_points = NoRec THEN NoRec
              ELSE Some([clan EXCEPT !.points = ValueOf(new_points)])

\* An earlier system of the step sends an event for the clan.
SendClanAdd(kind, delta) ==
    /\ guildScope = "arith"
    /\ guildPc = "sending"
    /\ guildStep < MaxArithSteps
    /\ Len(guildEvents) < MaxGuildEvents
    /\ guildEvents' = Append(guildEvents, [kind |-> kind, name |-> "none", delta |-> delta])
    /\ UNCHANGED <<guildScope, guildPc, guildStep, creator, guildCmds, clanEntities,
                   guild, guildSaves, guildNotes, guildLast>>
    /\ UNCHANGED clanVars
    /\ UNCHANGED <<schedVars, saveVars, storeVars, fileVars, loginVars, hashVars, vfsVars, botVars, worldVars>>

\* clan_system reads an AddLevel, AddMoney or AddPoints event: if the new value
\* exists the clan is changed, saved (a failed save is logged) and its online
\* members are notified.
ClanAdd(io) ==
    /\ guildPc = "running"
    /\ guildEvents # << >>
    /\ Head(guildEvents).kind \in { "AddLevel", "AddMoney", "AddPoints" }
    /\ LET ev == Head(guildEvents)
           r == HandleClanAdd(ValueOf(guild), ev)
       IN /\ IF r = NoRec
             THEN UNCHANGED <<guild, guildSaves, guildNotes, clans>>
             ELSE /\ guild' = r
                  /\ guildSaves' = guildSaves + 1
                  /\ guildNotes' = guildNotes + 1
                  /\ clans' = save_clan(clans, [name |-> ClanName, data |-> ValueOf(r)],
                                        io).tbl
          /\ guildLast' = [NoGuildEvent EXCEPT
                              !.kind = ev.kind, !.delta = ev.delta,
                              !.fault = IF io THEN 1 ELSE 0, !.guild = guild,
                              !.saves = guildSaves, !.notes = guildNotes]
    /\ guildEvents' = Tail(guildEvents)
    /\ UNCHANGED <<guildScope, guildPc, guildStep, creator, guildCmds, clanEntities>>
    /\ UNCHANGED <<backend, attempt>>
    /\ UNCHANGED <<schedVars, saveVars, storeVars, fileVars, loginVars, hashVars, vfsVars, botVars, worldVars>>

GuildNext ==
    \/ \E name \in ClanNames : SendClanCreate(name)
    \/ \E d \in LevelDeltas : SendClanAdd("AddLevel", d)
    \/ \E kind \in { "AddMoney", "AddPoints" }, d \in WideDeltas : SendClanAdd(kind, d)
    \/ RunClanSystem
    \/ \E fault \in 0 .. 2 : ClanCreate(fault)
    \/ \E io \in BOOLEAN : ClanAdd(io)
    \/ ApplyClanCommands

(***************************************************************************)
(* The world server (world_server_system.rs): the connection request of a  *)
(* client that holds a login token, and CreateCharacter requests of the    *)
(* clients that are connected.                                             *)
(***************************************************************************)
\* The ids of the login tokens that exist or have existed, the ids a client
\* may send, and the entities of the world connections.
TokenIds == { 1, 2 }
RequestedTokens == { 1, 2, 3 }
WorldEntities == { "w1", "w2" }

\* The sets of characters whose delete time may have run out at a request.
ExpiredSets == { {}, { "Arua" } }

\* A LoginToken as login_tokens.generate leaves it, and one that a game client
\* has taken.
FreshToken(username) ==
    [username |-> username, world_client |-> NoRec, game_client |-> NoRec]
GameToken(username) ==
    [username |-> username, world_client |-> NoRec, game_client |-> Some("g1")]

\* LoginTokens::get_token_mut: the token of that id, if there is one.
get_token_mut(toks, token_id) ==
    IF token_id \in DOMAIN toks THEN toks[token_id] ELSE NoRec

\* The test of line 43, which ignores the world client.
TokenBoundToGame(login_token) == login_token.game_client # NoRec

\* login_token.world_client.is_some() || login_token.game_client.is_some() (43).
TokenBound(login_token) ==
    login_token.world_client # NoRec \/ login_token.game_client # NoRec

\* The components of a world connection: Account and CharacterList, if they
\* have been inserted, and world_client.login_token (0: none).
NoClient == [account |-> NoRec, character_list |-> NoRec, login_token |-> 0]

\* The loop of 77-110 over account.character_names.  expired: the characters
\* whose delete time has run out.  fault: 2 the load_character calls fail,
\* 3 the delete_character calls fail.  character_list holds the names of the
\* characters pushed, valid the names pushed to valid_character_names.
RECURSIVE LoadCharacterList(_, _, _, _)
LoadCharacterList(names, chars, expired, fault) ==
    IF names = << >>
    THEN [chars |-> chars, character_list |-> << >>, valid |-> << >>]
    ELSE LET name == Head(names)
             ld == load_character(chars, name, fault = 2)
             character == ValueOf(ld.res.val)
             is_expired == ld.res.tag = "some" /\ character.name \in expired
             dl == delete_character(ld.tbl, character.name, fault = 3)
             rest == LoadCharacterList(Tail(names),
                                       IF is_expired THEN dl.tbl ELSE ld.tbl,
                                       expired, fault)
         IN  IF ld.res.tag = "some" /\ ~is_expired
             THEN [rest EXCEPT !.character_list = << character.name >> \o @,
                               !.valid = << name >> \o @]
             ELSE rest

\* handle_world_connection_request (31-137) for the connection entity.  fault
\* is the adapter call that fails: 1 load_account, 2 load_character,
\* 3 delete_character, 4 save_account.  The outcome is the tables, the tokens,
\* the components of the connection, the message sent back and the number of
\* account reads.  The Account inserted is made from account, the record as
\* it was loaded (128).
handle_world_connection_request(entity, token_id, password, expired, fault) ==
    LET login_token == get_token_mut(tokens, token_id)
        tok == ValueOf(login_token)
        Reject(msg, reads) ==
            [accs |-> accounts, chars |-> characters, toks |-> tokens,
             client |-> wclients[entity], msg |-> msg, reads |-> reads]
        ld == load_account(accounts, tok.username, hash_password(password), fault = 1)
        account == ValueOf(ld.res.val)
        lp == LoadCharacterList(account.character_names, characters, expired, fault)
        updated_account == [account EXCEPT !.character_names = lp.valid]
        sv == save_account(ld.tbl, updated_account, fault = 4)
    IN
    IF login_token = NoRec THEN Reject("InvalidToken", 0)
    ELSE IF TokenBound(tok) THEN Reject("InvalidToken", 0)
    ELSE IF ld.res.tag = "none" THEN Reject("InvalidPassword", 1)
    ELSE IF ld.res.tag = "InvalidPassword" THEN Reject("InvalidPassword", 1)
    ELSE IF IsErr(ld.res) THEN Reject("Failed", 1)
    ELSE [accs |-> IF Len(account.character_names) # Len(lp.valid)
                   THEN sv.tbl ELSE ld.tbl,
          chars |-> lp.chars,
          toks |-> [tokens EXCEPT
                      ![token_id] = Some([tok EXCEPT !.world_client = Some(entity)])],
          client |-> [account |-> Some(account),
                      character_list |-> Some(lp.character_list),
                      login_token |-> token_id],
          msg |-> "ConnectionRequestSuccess", reads |-> 1]

\* (history) The message handled last.
Handled(op, entity, token, fault, msg, reads, slot) ==
    [op |-> op, entity |-> entity, token |-> token, fault |-> fault, msg |-> msg,
     reads |-> reads, slot |-> slot]

NoMessage == Handled("none", "none", 0, 0, "none", 0, 0)

\* world_server_authentication_system (139-172): a connection without Account
\* sends a ConnectionRequest.
WorldConnectionRequest(entity, token_id, password, expired, fault) ==
    /\ scope = "connect"
    /\ wsteps < MaxWorldSteps
    /\ wclients[entity].account = NoRec
    /\ wsteps' = wsteps + 1
    /\ LET r == handle_world_connection_request(entity, token_id, password,
                                                expired, fault) IN
        /\ accounts' = r.accs
        /\ characters' = r.chars
        /\ tokens' = r.toks
        /\ wclients' = [wclients EXCEPT ![entity] = r.client]
        /\ wlast' = Handled("ConnectionRequest", entity, token_id, fault, r.msg,
                            r.reads, 0)
    /\ UNCHANGED <<scope, banks, conn, requests, last>>
    /\ UNCHANGED <<schedVars, saveVars, clanVars, fileVars, loginVars, hashVars, vfsVars, botVars, guildVars>>

\* world_server_system, ClientMessage::CreateCharacter (201-279), for a
\* connection that has its Account and CharacterList: on success the character
\* is pushed to the CharacterList (260) and the slot sent back is the length of
\* the Account's list before the push (251).
ClientCreateCharacter(entity, name, valid, fault) ==
    /\ scope \in { "connect", "slots" }
    /\ wsteps < MaxWorldSteps
    /\ wclients[entity].account # NoRec
    /\ wsteps' = wsteps + 1
    /\ LET account == ValueOf(wclients[entity].account)
           character_list == ValueOf(wclients[entity].character_list)
           r == HandleCreateCharacter(account, name, valid, fault)
           created == r.msg = "CreateCharacterSuccess"
       IN
        /\ accounts' = r.accs
        /\ characters' = r.chars
        /\ wclients' = [wclients EXCEPT
                          ![entity].account = Some(r.account),
                          ![entity].character_list =
                              IF created THEN Some(Append(character_list, name))
                                         ELSE @]
        /\ wlast' = Handled("CreateCharacter", entity, wclients[entity].login_token,
                            fault, r.msg, 0,
                            IF created THEN Len(account.character_names) ELSE 0)
    /\ UNCHANGED <<scope, banks, conn, requests, last, tokens>>
    /\ UNCHANGED <<schedVars, saveVars, clanVars, fileVars, loginVars, hashVars, vfsVars, botVars, guildVars>>

WorldNext ==
    \/ \E e \in WorldEntities, t \in RequestedTokens, pw \in Passwords,
          expired \in ExpiredSets, fault \in 0 .. 4 :
            WorldConnectionRequest(e, t, pw, expired, fault)
    \/ \E e \in WorldEntities, n \in RequestedNames, valid \in BOOLEAN, fault \in 0 .. 3 :
            ClientCreateCharacter(e, n, valid, fault)

(***************************************************************************)
(* The file of one clan under the JSON adapter (json_adapter.rs 113-154),   *)
(* at the level of the file system calls.  A record is written in chunks;   *)
(* the path names a file, and a file that is open stays readable when the   *)
(* path is given to another file.                                          *)
(***************************************************************************)
Writers == { 1, 2 }
Files == 1..3
NoFile == 0

\* serde_json::to_string_pretty(&clan) (119, 146): the text of version v of the
\* record, which write_all writes in two chunks.
Serialize(v) == << [version |-> v, chunk |-> 1], [version |-> v, chunk |-> 2] >>

\* serde_json::from_str(&content) (137): the record, if the text is the whole
\* text of a record.
Parse(content) ==
    IF \E v \in 0..2 : content = Serialize(v)
    THEN [tag |-> "some", val |-> { content[1].version }]
    ELSE [tag |-> "error", val |-> {}]

\* Writing into the file that the path names, where there is one.
WriteTargetInPlace(p) == IF path # NoFile THEN path ELSE p + 1

\* tempfile::Builder::new().tempfile_in(storage_dir) (121-122, 148-149): a new
\* file of its own for every call.
WriteTarget(p) == p + 1

IdleWriter == [pc |-> "idle", op |-> "none", tmp |-> NoFile]
IdleReader == [pc |-> "idle", fd |-> NoFile, buf |-> <<>>, had |-> FALSE,
               res |-> [tag |-> "pending", val |-> {}], loads |-> 0]

\* save_clan / create_clan up to the creation of the temporary file (114-122,
\* 141-149).  Call p writes version p of the record.
CreateTempFile(p, op, io) ==
    /\ writer[p].pc = "idle"
    /\ IF io
       THEN /\ writer' = [writer EXCEPT ![p] = [pc |-> "failed", op |-> op, tmp |-> NoFile]]
            /\ UNCHANGED inodes
       ELSE /\ writer' = [writer EXCEPT ![p] =
                            [pc |-> "writing", op |-> op, tmp |-> WriteTarget(p)]]
            /\ inodes' = [inodes EXCEPT ![WriteTarget(p)] = <<>>]
    /\ UNCHANGED <<path, reader, stored>>
    /\ UNCHANGED <<schedVars, saveVars, clanVars, storeVars, loginVars, hashVars, vfsVars, botVars, guildVars, worldVars>>

\* file.write_all(json.as_bytes()) (123, 150): one more chunk reaches the file,
\* or the write fails and the call returns the error.
WriteChunk(p, io) ==
    /\ writer[p].pc = "writing"
    /\ Len(inodes[writer[p].tmp]) < Len(Serialize(p))
    /\ IF io
       THEN /\ writer' = [writer EXCEPT ![p].pc = "failed"]
            /\ UNCHANGED inodes
       ELSE /\ inodes' = [inodes EXCEPT ![writer[p].tmp] =
                            Append(@, Serialize(p)[Len(@) + 1])]
            /\ UNCHANGED writer
    /\ UNCHANGED <<path, reader, stored>>
    /\ UNCHANGED <<schedVars, saveVars, clanVars, storeVars, loginVars, hashVars, vfsVars, botVars, guildVars, worldVars>>

\* file.persist(&path) of save_clan (151) and file.persist_noclobber(&path) of
\* create_clan (124): the path is given to the temporary file in one step;
\* persist_noclobber fails if the path names a file.
PersistFile(p, io) ==
    /\ writer[p].pc = "writing"
    /\ Len(inodes[writer[p].tmp]) = Len(Serialize(p))
    /\ IF io \/ (writer[p].op = "create_clan" /\ path # NoFile)
       THEN /\ writer' = [writer EXCEPT ![p].pc = "failed"]
            /\ UNCHANGED <<path, stored>>
       ELSE /\ writer' = [writer EXCEPT ![p].pc = "done"]
            /\ path' = writer[p].tmp
            /\ stored' = stored \cup { p }
    /\ UNCHANGED <<inodes, reader>>
    /\ UNCHANGED <<schedVars, saveVars, clanVars, storeVars, loginVars, hashVars, vfsVars, botVars, guildVars, worldVars>>

\* load_clan: if !path.exists() { return Ok(None) } (131-134).
LoadClanExists ==
    /\ reader.pc = "idle"
    /\ reader.loads < MaxLoads
    /\ reader' = IF path = NoFile
                 THEN [reader EXCEPT !.pc = "done", !.had = FALSE,
                                     !.res = [tag |-> "none", val |-> {}]]
                 ELSE [reader EXCEPT !.pc = "exists", !.had = TRUE]
    /\ UNCHANGED <<path, inodes, writer, stored>>
    /\ UNCHANGED <<schedVars, saveVars, clanVars, storeVars, loginVars, hashVars, vfsVars, botVars, guildVars, worldVars>>

\* read_to_string opens the file that the path names (136).
LoadClanOpen ==
    /\ reader.pc = "exists"
    /\ reader' = [reader EXCEPT !.pc = "open", !.fd = path, !.buf = <<>>]
    /\ UNCHANGED <<path, inodes, writer, stored>>
    /\ UNCHANGED <<schedVars, saveVars, clanVars, storeVars, loginVars, hashVars, vfsVars, botVars, guildVars, worldVars>>

\* read_to_string reads the open file chunk by chunk up to its end, and the text
\* is parsed (136-138).
LoadClanRead ==
    /\ reader.pc = "open"
    /\ reader' = IF Len(reader.buf) < Len(inodes[reader.fd])
                 THEN [reader EXCEPT !.buf = Append(@, inodes[reader.fd][Len(@) + 1])]
                 ELSE [reader EXCEPT !.pc = "done", !.res = Parse(reader.buf)]
    /\ UNCHANGED <<path, inodes, writer, stored>>
    /\ UNCHANGED <<schedVars, saveVars, clanVars, storeVars, loginVars, hashVars, vfsVars, botVars, guildVars, worldVars>>

\* load_clan returns; the caller may call it again.
LoadClanReturn ==
    /\ reader.pc = "done"
    /\ reader' = [IdleReader EXCEPT !.loads = reader.loads + 1]
    /\ UNCHANGED <<path, inodes, writer, stored>>
    /\ UNCHANGED <<schedVars, saveVars, clanVars, storeVars, loginVars, hashVars, vfsVars, botVars, guildVars, worldVars>>

FileNext ==
    \/ \E p \in Writers, op \in { "save_clan", "create_clan" }, io \in BOOLEAN :
            CreateTempFile(p, op, io)
    \/ \E p \in Writers, io \in BOOLEAN : WriteChunk(p, io)
    \/ \E p \in Writers, io \in BOOLEAN : PersistFile(p, io)
    \/ LoadClanExists
    \/ LoadClanOpen
    \/ LoadClanRead
    \/ LoadClanReturn

(***************************************************************************)
(* A connection to the login server and the two input systems that read    *)
(* its inbound queue (login_server_system.rs 20-180).  The client sends at  *)
(* any time; each system runs once in a step.                              *)
(***************************************************************************)
LoginMessages == { "ConnectionRequest", "LoginRequest", "GetChannelList", "JoinServer" }
LoginInputSystems == { "login_server_authentication_system", "login_server_system" }

\* The client's side of the channel: one more message in the queue.
ClientSend(m) ==
    /\ tick < MaxTicks
    /\ loginPc = "running"
    /\ Len(clientRx) < MaxQueue
    /\ clientRx' = Append(clientRx, m)
    /\ UNCHANGED <<loginAccount, pendingInsert, polled, queuedAtStart, consumed, tick,
                   loginPc>>
    /\ UNCHANGED <<schedVars, saveVars, clanVars, storeVars, fileVars, hashVars, vfsVars, botVars, guildVars, worldVars>>

\* login_server_authentication_system (20-107) for the connection, which the
\* query matches while it has no Account: one try_recv.  A LoginRequest that
\* succeeds queues the insertion of the Account; a message other than
\* ConnectionRequest and LoginRequest panics.
LoginServerAuthentication(ok) ==
    /\ tick < MaxTicks
    /\ loginPc = "running"
    /\ "login_server_authentication_system" \notin polled
    /\ polled' = polled \cup { "login_server_authentication_system" }
    /\ IF loginAccount = NoRec /\ clientRx # << >>
       THEN /\ clientRx' = Tail(clientRx)
            /\ consumed' = consumed + 1
            /\ pendingInsert' = (pendingInsert \/ (Head(clientRx) = "LoginRequest" /\ ok))
            /\ loginPc' = IF Head(clientRx) \in { "ConnectionRequest", "LoginRequest" }
                          THEN "running" ELSE "panicked"
       ELSE UNCHANGED <<clientRx, consumed, pendingInsert, loginPc>>
    /\ UNCHANGED <<loginAccount, queuedAtStart, tick>>
    /\ UNCHANGED <<schedVars, saveVars, clanVars, storeVars, fileVars, hashVars, vfsVars, botVars, guildVars, worldVars>>

\* login_server_system (109-180) for the connection, which the query matches
\* once it has an Account: one try_recv; GetChannelList and JoinServer are
\* answered, any other message is logged.
LoginServer ==
    /\ tick < MaxTicks
    /\ loginPc = "running"
    /\ "login_server_system" \notin polled
    /\ polled' = polled \cup { "login_server_system" }
    /\ IF loginAccount # NoRec /\ clientRx # << >>
       THEN /\ clientRx' = Tail(clientRx)
            /\ consumed' = consumed + 1
       ELSE UNCHANGED <<clientRx, consumed>>
    /\ UNCHANGED <<loginAccount, pendingInsert, queuedAtStart, tick, loginPc>>
    /\ UNCHANGED <<schedVars, saveVars, clanVars, storeVars, fileVars, hashVars, vfsVars, botVars, guildVars, worldVars>>

\* The step ends after both systems have run: the queued commands have been
\* applied, and the next step starts with the messages that wait.
LoginStepEnd ==
    /\ tick < MaxTicks
    /\ loginPc = "running"
    /\ polled = LoginInputSystems
    /\ loginAccount' = IF pendingInsert THEN Some("alice") ELSE loginAccount
    /\ pendingInsert' = FALSE
    /\ polled' = {}
    /\ tick' = tick + 1
    /\ queuedAtStart' = Len(clientRx)
    /\ consumed' = 0
    /\ UNCHANGED <<clientRx, loginPc>>
    /\ UNCHANGED <<schedVars, saveVars, clanVars, storeVars, fileVars, hashVars, vfsVars, botVars, guildVars, worldVars>>

LoginNext ==
    \/ \E m \in LoginMessages : ClientSend(m)
    \/ \E ok \in BOOLEAN : LoginServerAuthentication(ok)
    \/ LoginServer
    \/ LoginStepEnd

(***************************************************************************)
(* FileNameHash::from(&str) (titanvfs.rs 61-115).  A path is a sequence of  *)
(* character codes; a u32 is a pair << high, low >> of 16-bit halves, and   *)
(* its arithmetic wraps as Wrapping<u32> does.                             *)
(***************************************************************************)
RECURSIVE BitXor(_, _, _)
\* a ^ b on the n low bits.
BitXor(a, b, n) ==
    IF n = 0 THEN 0
    ELSE (((a % 2) + (b % 2)) % 2) + 2 * BitXor(a \div 2, b \div 2, n - 1)

RECURSIVE BitOr(_, _, _)
\* a | b on the n low bits.
BitOr(a, b, n) ==
    IF n = 0 THEN 0
    ELSE (IF a % 2 = 1 \/ b % 2 = 1 THEN 1 ELSE 0) + 2 * BitOr(a \div 2, b \div 2, n - 1)

Half == 65536
U32Of(n) == << n \div Half, n % Half >>
AddU32(a, b) == << (a[1] + b[1] + ((a[2] + b[2]) \div Half)) % Half, (a[2] + b[2]) % Half >>
MulU32(a, k) == << (a[1] * k + ((a[2] * k) \div Half)) % Half, (a[2] * k) % Half >>
XorU32(a, b) == << BitXor(a[1], b[1], 16), BitXor(a[2], b[2], 16) >>

HASH_TABLE ==
    << 432037, 394332, 701666, 264676, 463369, 205714, 684690, 723452, 308824, 699093,
       637391, 668266, 580882, 229712, 581965, 191359, 920150, 517882, 916519, 725761,
       570615, 687984, 698131, 445455, 458463, 191623, 790300, 285860, 200184, 396953,
       770366, 319669, 405899, 534137, 159474, 498837, 552412, 629696, 749927, 468274,
       427877, 816198, 894733, 643378, 938040, 194389, 595743, 832670, 456997, 393683,
       376202, 173300, 634914, 460483, 166928, 176715, 511317, 828245, 890356, 468924,
       725304, 634145, 789194, 842024, 611301, 621088, 214515, 777219, 516439, 617625,
       616687, 600745, 795254, 682333, 422971, 160315, 362880, 421384, 335131, 759762,
       445166, 837647, 244332, 723957, 647803, 856620, 296465, 574246, 862968, 766903,
       912767, 307766, 862607, 780562, 903462, 821055, 853782, 647635, 298388, 638353,
       361053, 349751, 729175, 773228, 286942, 714747, 531203, 216463, 787752, 826201,
       250464, 394525, 603991, 524927, 752692, 303438, 725688, 936261, 164355, 662543,
       697218, 289467, 209081, 368916, 685387, 813264, 590862, 444757, 766447, 335467,
       655137, 334794, 313465, 917360, 374254, 170294, 758343, 271889, 189267, 159546,
       426915, 659586, 422707, 478903, 480442, 223701, 581820, 703229, 418571, 670334,
       842673, 574174, 601394, 194797, 519252, 357109, 488545, 832501, 535652, 221152,
       598075, 711213, 765629, 833199, 822426, 383127, 833319, 660403, 740717, 805161,
       755506, 839258, 867945, 871264, 563521, 499077, 237071, 431195, 800760, 489267,
       286077, 152933, 670286, 761758, 202468, 223028, 456131, 691110, 788593, 273669,
       264820, 190445, 424991, 166880, 923179, 662543, 194533, 872538, 654536, 492417,
       168852, 343403, 461085, 667569, 768322, 170246, 803117, 261333, 652011, 585932,
       927171, 517401, 321497, 389187, 768539, 422154, 530939, 631331, 233031, 927917,
       747787, 271144, 511870, 712968, 939194, 763297, 657830, 641719, 897715, 694476,
       380602, 599133, 381059, 584225, 713545, 346432, 582999, 540413, 902404, 680025,
       755145, 643426, 503478, 781620, 739683, 931451, 313489, 648236, 869124, 618154,
       875881, 550584, 537864, 506604, 852989, 893218 >>

\* HASH_SEED1 = 0xDEADC0DE and HASH_SEED2 = 0x7FED7FED (89-90).
HASH_SEED1 == << 57005, 49374 >>
HASH_SEED2 == << 32749, 32749 >>

Slash == 47
Backslash == 92

\* A replacement that leaves the forward slash alone.
KeepSlash(c) == c

\* path.replace('/', "\\") (94), for one character.
ReplaceSlash(c) == IF c = Slash THEN Backslash ELSE c

RECURSIVE ReplaceDoubleBackslash(_)
\* .replace("\\\\", "\\") (94): the matches are found from the left and do not
\* overlap; each one is replaced by one backslash.
ReplaceDoubleBackslash(p) ==
    IF Len(p) < 2 THEN p
    ELSE IF p[1] = Backslash /\ p[2] = Backslash
         THEN << Backslash >> \o ReplaceDoubleBackslash(SubSeq(p, 3, Len(p)))
         ELSE << p[1] >> \o ReplaceDoubleBackslash(Tail(p))

\* .to_uppercase() (94), for one character of Latin-1: a letter becomes its
\* upper-case letter; the upper-case letter of U+00FF is U+0178.
ToUppercase(c) ==
    IF c \in 97..122 \/ c \in (224..254) \ { 247 } THEN c - 32
    ELSE IF c = 255 THEN 376
    ELSE c

\* c.to_ascii_uppercase() (104).
ToAsciiUppercase(c) == IF c \in 97..122 THEN c - 32 ELSE c

\* The path that is hashed (94).
NormalizePath(p) ==
    LET q == ReplaceDoubleBackslash([i \in 1..Len(p) |-> ReplaceSlash(p[i])])
    IN [i \in 1..Len(q) |-> ToUppercase(q[i])]

RECURSIVE HashChars(_, _, _)
\* The loop over the characters (102-110).  HASH_TABLE has 256 entries:
\* indexing it with a larger character code panics.
HashChars(p, seed1, seed2) ==
    IF p = << >> THEN [tag |-> "hash", val |-> seed1]
    ELSE LET ch == ToAsciiUppercase(Head(p))
             s1 == AddU32(seed1, seed2)
             s2 == MulU32(seed2, 33)
         IN IF ch >= Len(HASH_TABLE)
            THEN [tag |-> "panic", val |-> << 0, 0 >>]
            ELSE LET t1 == XorU32(s1, U32Of(HASH_TABLE[ch + 1]))
                 IN HashChars(Tail(p), t1,
                              AddU32(AddU32(AddU32(s2, t1), U32Of(ch)), U32Of(3)))

\* The hash of a normalised path (96-113).
HashOfNormalized(p) ==
    IF p = << >> THEN [tag |-> "hash", val |-> << 0, 0 >>]
    ELSE HashChars(p, HASH_SEED1, HASH_SEED2)

\* FileNameHash::from(path).
FileNameHashFrom(p) == HashOfNormalized(NormalizePath(p))

\* The characters of the paths: / \ A a and U+00FF.
PathChars == { Slash, Backslash, 65, 97, 255 }
Paths == UNION { [1..n -> PathChars] : n \in 0..MaxPathLen }
NoHash == [tag |-> "pending", val |-> << 0, 0 >>]

\* The first statement of FileNameHash::from: the path is normalised.
NormalizeGivenPath ==
    /\ normPath = NoRec
    /\ normPath' = Some(NormalizePath(vfsPath))
    /\ UNCHANGED <<vfsPath, pathHash>>
    /\ UNCHANGED <<schedVars, saveVars, clanVars, storeVars, fileVars, loginVars, vfsVars, botVars, guildVars, worldVars>>

\* The rest of FileNameHash::from: the normalised path is hashed.
HashNormalizedPath ==
    /\ normPath # NoRec
    /\ pathHash = NoHash
    /\ pathHash' = HashOfNormalized(ValueOf(normPath))
    /\ UNCHANGED <<vfsPath, normPath>>
    /\ UNCHANGED <<schedVars, saveVars, clanVars, storeVars, fileVars, loginVars, vfsVars, botVars, guildVars, worldVars>>

HashNext ==
    \/ NormalizeGivenPath
    \/ HashNormalizedPath

(***************************************************************************)
(* TitanVfsIndex::load and open_file (titanvfs.rs 18-48, 117-176).  The     *)
(* index file is a sequence of bytes; a u32 read from it is kept as its     *)
(* four bytes, least significant first.                                    *)
(***************************************************************************)
BlockSize == 32
HeaderSize == 8
\* text_hash u32, size u32, offset u64 (143-145).
RecordSize == 16

\* u32::to_le_bytes of a number below 2^31, and the number of little-endian
\* bytes that stay below 2^31.
RECURSIVE LeBytes(_, _)
LeBytes(n, k) == IF k = 0 THEN << >> ELSE << n % 256 >> \o LeBytes(n \div 256, k - 1)
RECURSIVE LeValue(_)
LeValue(b) == IF b = << >> THEN 0 ELSE Head(b) + 256 * LeValue(Tail(b))
XorBytes(a, b) == [i \in 1..Len(a) |-> BitXor(a[i], b[i], 8)]

\* 0x1337BEEF, least significant byte first (128).
CountMask == << 239, 190, 55, 19 >>

\* (file_count & (1 << 28)) != 0 (124).
IsEncrypted(count) == (count[4] \div 16) % 2 = 1

\* next_hash_index = [3, 2, 0, 1] (19), for indices that start at 1.
NextHashIndex == << 4, 3, 1, 2 >>

RECURSIVE CryptBytes(_, _, _)
\* crypt_data (18-27): the first 32 bytes of the slice are XORed with the bytes
\* of the key, taken in the order of next_hash_index.
CryptBytes(data, byteHash, index) ==
    IF data = << >> THEN << >>
    ELSE << BitXor(Head(data), byteHash[index], 8) >>
            \o CryptBytes(Tail(data), byteHash, NextHashIndex[index])
crypt_data(data, hash) ==
    IF Len(data) <= BlockSize THEN CryptBytes(data, hash, 1)
    ELSE CryptBytes(SubSeq(data, 1, BlockSize), hash, 1)
            \o SubSeq(data, BlockSize + 1, Len(data))

\* The value mixed into the key for one byte (32-44): `a | b ^ c` is
\* a | (b ^ c), and the result is cut to a u8.
MixOf(byteHash, d) ==
    LET v0 == byteHash[((d % 1337) % 4) + 1]
        all == BitOr(BitOr(byteHash[1], byteHash[2], 8),
                     BitOr(byteHash[3], byteHash[4], 8), 8)
        val == IF v0 # 0 THEN v0
               ELSE BitXor(BitXor(BitXor(BitXor(all, byteHash[1], 8), byteHash[2], 8),
                                  byteHash[3], 8), byteHash[4], 8)
        a == IF val < 3 THEN 256 + (val - 3) ELSE (val - 3) % 63
    IN BitOr(a, BitXor((val + 5) % 37, (val % 25) + 6, 8), 8)

RECURSIVE HashBytes(_, _, _)
\* The loop of generate_hash over data[0..32] (31-45).
HashBytes(data, byteHash, n) ==
    IF n = 0 THEN byteHash
    ELSE LET d == Head(data)
             at == ((d % 23) % 4) + 1
         IN HashBytes(Tail(data),
                      [byteHash EXCEPT ![at] = BitXor(@, MixOf(byteHash, d), 8)],
                      n - 1)
generate_hash(data, next_hash) == HashBytes(data, next_hash, BlockSize)

\* A derivation of the next key from the block after it was decrypted.
KeySourceAfterCrypt(before, after) == after

\* next_hash is computed before crypt_data changes the block (133-134).
KeySource(before, after) == before

\* The data blob that the index describes.
Blob == << 10, 11, 12, 13, 14, 15 >>

\* The paths that are looked up, and the hashes that the records carry.
LookupPaths == { << 97 >>, << 65 >>, << 65, Slash, 97 >>, << Slash >> }
U32ToLe(u) == << u[2] % 256, u[2] \div 256, u[1] % 256, u[1] \div 256 >>
PathHashBytes(p) == U32ToLe(FileNameHashFrom(p).val)
RecordHashes == { PathHashBytes(<< 97 >>), PathHashBytes(<< 65, Slash, 97 >>) }

\* The bytes of one record of the body.
RecordBytes(h, size, offset) == h \o LeBytes(size, 4) \o LeBytes(offset, 8)
Records == { RecordBytes(h, size, offset) : h \in RecordHashes, size \in { 2, 8 },
                                            offset \in { 0, 4 } }
RECURSIVE Flatten(_)
Flatten(q) == IF q = << >> THEN << >> ELSE Head(q) \o Flatten(Tail(q))
Bodies ==
    { Flatten(q) \o [i \in 1..pad |-> 7] :
        q \in UNION { [1..n -> Records] : n \in 0..MaxRecords }, pad \in { 0, 8, 40 } }

NoLookup == [tag |-> "none", val |-> << >>]
NoFiles == << >>

\* let version = reader.read_u32()?; let mut file_count = reader.read_u32()?
\* (119-131): the count field decides whether the body is decrypted.
ReadHeader ==
    /\ loadPc = "start"
    /\ LET count == SubSeq(indexData, 5, 8)
       IN IF IsEncrypted(count)
          THEN /\ cryptKey' = count
               /\ fileCount' = LeValue(XorBytes(count, CountMask))
               /\ cryptPos' = HeaderSize
               /\ loadPc' = "decrypt"
          ELSE /\ fileCount' = LeValue(count)
               /\ loadPc' = "records"
               /\ UNCHANGED <<cryptKey, cryptPos>>
    /\ UNCHANGED <<indexData, origData, blockKeys, files, recordsRead, lookupResult>>
    /\ UNCHANGED <<schedVars, saveVars, clanVars, storeVars, fileVars, loginVars, hashVars, botVars, guildVars, worldVars>>

\* One turn of `while pos + 32 < data.len()` (132-137).
DecryptBlock ==
    /\ loadPc = "decrypt"
    /\ cryptPos + BlockSize < Len(indexData)
    /\ LET rest == SubSeq(indexData, cryptPos + 1, Len(indexData))
           crypted == crypt_data(rest, cryptKey)
       IN /\ indexData' = SubSeq(indexData, 1, cryptPos) \o crypted
          /\ cryptKey' = generate_hash(KeySource(rest, crypted), cryptKey)
    /\ blockKeys' = Append(blockKeys, [pos |-> cryptPos, key |-> cryptKey])
    /\ cryptPos' = cryptPos + BlockSize
    /\ UNCHANGED <<origData, loadPc, fileCount, files, recordsRead, lookupResult>>
    /\ UNCHANGED <<schedVars, saveVars, clanVars, storeVars, fileVars, loginVars, hashVars, botVars, guildVars, worldVars>>

\* The loop ends (132).
DecryptDone ==
    /\ loadPc = "decrypt"
    /\ ~(cryptPos + BlockSize < Len(indexData))
    /\ loadPc' = "records"
    /\ UNCHANGED <<indexData, origData, cryptPos, cryptKey, blockKeys, fileCount, files,
                   recordsRead, lookupResult>>
    /\ UNCHANGED <<schedVars, saveVars, clanVars, storeVars, fileVars, loginVars, hashVars, botVars, guildVars, worldVars>>

\* An insertion that keeps the entry that is there.
InsertIfAbsent(fs, h, entry) ==
    IF h \in DOMAIN fs THEN fs ELSE [k \in DOMAIN fs \cup { h } |-> IF k = h THEN entry ELSE fs[k]]

\* files.insert(text_hash, (offset, size)) (146).
InsertFile(fs, h, entry) ==
    [k \in DOMAIN fs \cup { h } |-> IF k = h THEN entry ELSE fs[k]]

\* reader.read_u32 / read_u64: the bytes at the position of the reader, and an
\* error if the data ends before them.
ReadBytes(data, at, k) ==
    IF at + k <= Len(data) THEN Some(SubSeq(data, at + 1, at + k)) ELSE NoRec

\* One turn of `for _ in 0..file_count` (142-147).
ReadRecord ==
    /\ loadPc = "records"
    /\ recordsRead < fileCount
    /\ LET at == HeaderSize + RecordSize * recordsRead
           rec == ReadBytes(indexData, at, RecordSize)
       IN IF rec = NoRec
          THEN /\ loadPc' = "failed"
               /\ UNCHANGED <<files, recordsRead>>
          ELSE /\ files' = InsertFile(files, SubSeq(ValueOf(rec), 1, 4),
                                      [offset |-> SubSeq(ValueOf(rec), 9, 16),
                                       size |-> SubSeq(ValueOf(rec), 5, 8)])
               /\ recordsRead' = recordsRead + 1
               /\ UNCHANGED loadPc
    /\ UNCHANGED <<indexData, origData, cryptPos, cryptKey, blockKeys, fileCount,
                   lookupResult>>
    /\ UNCHANGED <<schedVars, saveVars, clanVars, storeVars, fileVars, loginVars, hashVars, botVars, guildVars, worldVars>>

\* File::open(data_path)? and the mapping of the blob (149-156).
OpenDataFile(io) ==
    /\ loadPc = "records"
    /\ recordsRead = fileCount
    /\ loadPc' = IF io THEN "failed" ELSE "loaded"
    /\ UNCHANGED <<indexData, origData, cryptPos, cryptKey, blockKeys, fileCount, files,
                   recordsRead, lookupResult>>
    /\ UNCHANGED <<schedVars, saveVars, clanVars, storeVars, fileVars, loginVars, hashVars, botVars, guildVars, worldVars>>

\* &self.mmap[offset as usize..offset as usize + size as usize] (168-170): the
\* bytes of the range, or a panic if the range does not lie in the blob.
BlobView(entry) ==
    IF /\ \A i \in 3..8 : entry.offset[i] = 0
       /\ \A i \in 3..4 : entry.size[i] = 0
       /\ LeValue(SubSeq(entry.offset, 1, 2)) + LeValue(SubSeq(entry.size, 1, 2))
             <= Len(Blob)
    THEN [tag |-> "view",
          val |-> SubSeq(Blob, LeValue(SubSeq(entry.offset, 1, 2)) + 1,
                         LeValue(SubSeq(entry.offset, 1, 2))
                           + LeValue(SubSeq(entry.size, 1, 2)))]
    ELSE [tag |-> "panic", val |-> << >>]

\* open_file (161-171).
OpenFile(p) ==
    /\ loadPc = "loaded"
    /\ lookupResult.tag # "panic"
    /\ lookupResult' =
          IF PathHashBytes(p) \in DOMAIN files
          THEN BlobView(files[PathHashBytes(p)])
          ELSE [tag |-> "FileNotFound", val |-> << >>]
    /\ UNCHANGED <<indexData, origData, loadPc, cryptPos, cryptKey, blockKeys, fileCount,
                   files, recordsRead>>
    /\ UNCHANGED <<schedVars, saveVars, clanVars, storeVars, fileVars, loginVars, hashVars, botVars, guildVars, worldVars>>

VfsNext ==
    \/ ReadHeader
    \/ DecryptBlock
    \/ DecryptDone
    \/ ReadRecord
    \/ \E io \in BOOLEAN : OpenDataFile(io)
    \/ \E p \in LookupPaths : OpenFile(p)

(***************************************************************************)
(* action_attack_random_nearby_target, ActionState::Requested              *)
(* (bot_find_nearby_target.rs 98-149).  An enemy is named by its place in   *)
(* the scan; a distance is the squared distance to the bot.                *)
(***************************************************************************)
\* ArrayVec<(f32, Entity), 10> (99).
TargetCapacity == 10

\* The squared distances of the enemies within the search distance.
Distances == { 1, 2 }

\* ArrayVec::remove and ArrayVec::insert, for indices that start at 1.
RemoveAt(q, i) == SubSeq(q, 1, i - 1) \o SubSeq(q, i + 1, Len(q))
InsertAt(q, i, x) == SubSeq(q, 1, i - 1) \o << x >> \o SubSeq(q, i, Len(q))

\* The first index of the buffer whose distance is greater (119-120), 0 if
\* there is none.
FirstFarther(q, d) ==
    IF \E i \in 1..Len(q) : d < q[i].distance
    THEN CHOOSE i \in 1..Len(q) :
            /\ d < q[i].distance
            /\ \A j \in 1..(i - 1) : ~(d < q[j].distance)
    ELSE 0

\* The body of the loop for one living enemy (113-133).
ScanOne(q, d, e) ==
    LET at == FirstFarther(q, d)
        found == IF at = 0 THEN q
                 ELSE InsertAt(IF Len(q) = TargetCapacity THEN RemoveAt(q, Len(q)) ELSE q,
                               at, [distance |-> d, entity |-> e])
    IN IF found = << >> THEN << [distance |-> d, entity |-> e] >> ELSE found

\* The iterator yields a living enemy of another team at distance d (100-134).
ScanEnemy(d) ==
    /\ botPc = "scanning"
    /\ Len(scannedEnemies) < MaxEnemies
    /\ nearest_targets' = ScanOne(nearest_targets, d, Len(scannedEnemies) + 1)
    /\ scannedEnemies' = Append(scannedEnemies, d)
    /\ UNCHANGED <<skippedEntities, botPc, botTarget>>
    /\ UNCHANGED <<schedVars, saveVars, clanVars, storeVars, fileVars, loginVars, hashVars, vfsVars, guildVars, worldVars>>

\* The iterator yields an entity that is dead, of the team of the bot, or
\* without team and health (107-112): the buffer is not changed.
ScanOther ==
    /\ botPc = "scanning"
    /\ skippedEntities < MaxSkipped
    /\ skippedEntities' = skippedEntities + 1
    /\ UNCHANGED <<nearest_targets, scannedEnemies, botPc, botTarget>>
    /\ UNCHANGED <<schedVars, saveVars, clanVars, storeVars, fileVars, loginVars, hashVars, vfsVars, guildVars, worldVars>>

\* The iterator is exhausted (135).
ScanEnd ==
    /\ botPc = "scanning"
    /\ botPc' = "scanned"
    /\ UNCHANGED <<nearest_targets, scannedEnemies, skippedEntities, botTarget>>
    /\ UNCHANGED <<schedVars, saveVars, clanVars, storeVars, fileVars, loginVars, hashVars, vfsVars, guildVars, worldVars>>

\* nearest_targets.choose(&mut rng) (138-149): a random entry of the buffer, or
\* Failure if the buffer is empty.
ChooseTarget ==
    /\ botPc = "scanned"
    /\ IF nearest_targets = << >>
       THEN /\ botPc' = "Failure"
            /\ UNCHANGED botTarget
       ELSE /\ \E i \in 1..Len(nearest_targets) :
                  botTarget' = Some(nearest_targets[i].entity)
            /\ botPc' = "Executing"
    /\ UNCHANGED <<nearest_targets, scannedEnemies, skippedEntities>>
    /\ UNCHANGED <<schedVars, saveVars, clanVars, storeVars, fileVars, loginVars, hashVars, vfsVars, guildVars, worldVars>>

BotNext ==
    \/ \E d \in Distances : ScanEnemy(d)
    \/ ScanOther
    \/ ScanEnd
    \/ ChooseTarget

(***************************************************************************)
(* The executor of a schedule (Bevy's multi-threaded executor): a system   *)
(* is started as soon as every system ordered before it has finished, the  *)
(* started systems finish in any order, and the schedule ends when all of  *)
(* its systems have finished.  A system is waiting, running or done.       *)
(***************************************************************************)
Before[s \in Systems] == { e[1] : e \in { o \in Order : o[2] = s } }

\* The statuses after the systems that have become ready are started.
StartReady(st, sc) ==
    [s \in Systems |->
        IF /\ s \in SystemsOf(sc)
           /\ st[s] = "waiting"
           /\ \A b \in Before[s] : st[b] = "done"
        THEN "running"
        ELSE st[s]]

FinishSystem(s) ==
    /\ status[s] = "running"
    /\ status' = StartReady([status EXCEPT ![s] = "done"], sched)
    /\ deferred' = IF s = "apply_deferred" THEN {} ELSE deferred \cup { s }
    /\ UNCHANGED <<sched, frame>>
    /\ UNCHANGED <<saveVars, clanVars, storeVars, fileVars, loginVars, hashVars, vfsVars, botVars, guildVars, worldVars>>

ScheduleDone == \A s \in SystemsOf(sched) : status[s] = "done"

AdvanceSchedule ==
    /\ sched \in { "PreUpdate", "Update", "PostUpdate" }
    /\ ScheduleDone
    /\ sched' = NextSchedule(sched)
    /\ status' = StartReady(status, NextSchedule(sched))
    /\ deferred' = {}
    /\ UNCHANGED frame
    /\ UNCHANGED <<saveVars, clanVars, storeVars, fileVars, loginVars, hashVars, vfsVars, botVars, guildVars, worldVars>>

\* The end of a step: the runner loop starts the next one (MaxFrames of them).
EndFrame ==
    /\ sched = "Last"
    /\ ScheduleDone
    /\ frame' = frame + 1
    /\ IF frame + 1 < MaxFrames
       THEN /\ sched' = NextSchedule(sched)
            /\ status' = StartReady([s \in Systems |-> "waiting"], NextSchedule(sched))
       ELSE /\ sched' = "Stopped"
            /\ UNCHANGED status
    /\ deferred' = {}
    /\ UNCHANGED <<saveVars, clanVars, storeVars, fileVars, loginVars, hashVars, vfsVars, botVars, guildVars, worldVars>>

SchedNext ==
    \/ \E s \in SystemsOf(sched) : FinishSystem(s)
    \/ AdvanceSchedule
    \/ EndFrame

\* The step has reached the start of schedule sc: the schedules before it have run.
SchedIndex(sc) ==
    CASE sc = "PreUpdate"  -> 1
      [] sc = "Update"     -> 2
      [] sc = "PostUpdate" -> 3
      [] sc = "Last"       -> 4

InitSchedAt(sc) ==
    /\ sched = sc
    /\ status = StartReady(
            [s \in Systems |->
                IF \E p \in { "PreUpdate", "Update", "PostUpdate", "Last" } :
                      s \in SystemsOf(p) /\ SchedIndex(p) < SchedIndex(sc)
                THEN "done" ELSE "waiting"], sc)
    /\ frame = 0
    /\ deferred = {}

(***************************************************************************)
(* Properties of the schedules.                                            *)
(***************************************************************************)
Started(s) == status[s] # "waiting"
Done(s) == status[s] = "done"

\* C1: in every step damage_system and skill_effect_system have both completed
\* when item_life_system starts, and item_life_system has completed when
\* equipment_event_system starts: damage, then durability loss, then the
\* equipment event, in every execution.
C1_DamageThenItemLifeThenEquipment ==
    /\ Started("item_life_system") =>
            Done("damage_system") /\ Done("skill_effect_system")
    /\ Started("equipment_event_system") => Done("item_life_system")

\* C1 witness: equipment_event_system is running in the Update schedule, after
\* the damage and the durability loss of the same step.
C1_Witness ==
    /\ sched = "Update"
    /\ status["equipment_event_system"] = "running"
    /\ Done("damage_system") /\ Done("skill_effect_system") /\ Done("item_life_system")

\* The systems that drain the per-connection inbound queues.
InputSystems ==
    { "login_server_authentication_system", "login_server_system",
      "world_server_authentication_system", "world_server_system",
      "game_server_authentication_system", "game_server_main_system" }

\* Systems of the PreUpdate schedule that apply state to the world.
WorldSystems ==
    { "monster_spawn_system", "npc_ai_system", "expire_time_system",
      "status_effect_system", "passive_recovery_system" }

\* C2 (as claimed): every input-draining system has completed before a system
\* that applies state to the world starts.
C2_InputCompleteBeforeWorld ==
    \A w \in WorldSystems : Started(w) => \A i \in InputSystems : Done(i)

\* C14: in the second group of PreUpdate the three motion / position systems
\* have completed when command_system starts, command_system has completed
\* when use_ammo_system and pickup_item_system start, and
\* party_member_event_system completes before party_system, which completes
\* before party_member_update_info_system.
C14_SecondGroupChains ==
    /\ Started("command_system") => \A m \in MotionSystems : Done(m)
    /\ \A c \in ConsumeSystems : Started(c) => Done("command_system")
    /\ Started("party_system") => Done("party_member_event_system")
    /\ Started("party_member_update_info_system") => Done("party_system")

\* C14 witness: both consuming systems and the last system of the party chain
\* are running, after the systems their chains put before them.
C14_Witness ==
    /\ sched = "PreUpdate"
    /\ \A c \in ConsumeSystems : status[c] = "running"
    /\ status["party_member_update_info_system"] = "running"
    /\ Done("command_system") /\ Done("party_system")
    /\ \A m \in MotionSystems : Done(m)

\* C15: the barrier separates the two groups of PreUpdate: while apply_deferred
\* runs every first-group system has finished and no second-group system has
\* started (so no system of either group is running while the queued changes
\* are applied); the changes queued by a first-group system stay queued until
\* the barrier; and when a second-group system starts, the changes queued by
\* every first-group system have been applied.
C15_BarrierBetweenGroups ==
    /\ status["apply_deferred"] = "running" =>
            /\ \A a \in PreUpdateGroup1 : Done(a)
            /\ \A b \in PreUpdateGroup2 : ~Started(b)
    /\ ~Done("apply_deferred") =>
            \A a \in PreUpdateGroup1 : Done(a) => a \in deferred
    /\ \A b \in PreUpdateGroup2 : Started(b) =>
            /\ \A a \in PreUpdateGroup1 : Done(a)
            /\ deferred \cap PreUpdateGroup1 = {}

\* C15 witness: the barrier is applying the changes queued by the whole first
\* group.
C15_Witness ==
    /\ sched = "PreUpdate"
    /\ status["apply_deferred"] = "running"
    /\ deferred = PreUpdateGroup1

\* C16: party_update_average_level_system starts only after
\* experience_points_system has completed, and ability_values_changed_system
\* only after both ability_values_update_character_system and
\* ability_values_update_npc_system have completed.
C16_AverageLevelAndAbilityValues ==
    /\ Started("party_update_average_level_system") =>
            Done("experience_points_system")
    /\ Started("ability_values_changed_system") =>
            /\ Done("ability_values_update_character_system")
            /\ Done("ability_values_update_npc_system")

\* C16 witness: ability_values_changed_system is running in Last, after both
\* update systems of this step and the average-level update of PostUpdate.
C16_Witness ==
    /\ sched = "Last"
    /\ status["ability_values_changed_system"] = "running"
    /\ Done("ability_values_update_character_system")
    /\ Done("ability_values_update_npc_system")
    /\ Done("party_update_average_level_system")

\* The schedules of a step, in the order the step runs them.
Phases == { "PreUpdate", "Update", "PostUpdate", "Last" }

\* C17: a step runs PreUpdate, Update, PostUpdate, Last in this order, and
\* every system of a phase has completed when a system of a later phase
\* starts; save_system runs only in Last, so when it starts to drain the save
\* events every system of PreUpdate, Update and PostUpdate, which may have sent
\* one or changed a component, has completed in this step.
C17_PhasesInOrder ==
    /\ \A p, q \in Phases : SchedIndex(p) < SchedIndex(q) =>
            \A s \in SystemsOf(p), t \in SystemsOf(q) : Started(t) => Done(s)
    /\ sched \in Phases =>
            \A s \in Systems : status[s] = "running" => s \in SystemsOf(sched)
    /\ status["save_system"] = "running" =>
            /\ sched = "Last"
            /\ \A s \in PreUpdateSystems \cup UpdateSystems \cup PostUpdateSystems : Done(s)

\* C17 witness: save_system is running in Last after the systems of the three
\* earlier phases.
C17_Witness ==
    /\ sched = "Last"
    /\ status["save_system"] = "running"
    /\ Done("damage_system") /\ Done("client_entity_visibility_system")
    /\ Done("clan_system")

(***************************************************************************)
(* Properties of clan creation.                                            *)
(***************************************************************************)
\* The attempt has finished and was decided by the name: it stored its clan, or
\* it was refused because the name was taken.
Succeeded(p) == attempt[p].pc = "done" /\ attempt[p].res = "ok"
Collided(p) ==
    /\ attempt[p].pc = "done"
    /\ attempt[p].res = "collision" \/ attempt[p].msg = "NameExists"

\* C5: of two attempts to create a clan of the same name, through the adapter or
\* through clan_system and in any interleaving of their steps, at most one
\* succeeds; once both have been decided by the name (neither was stopped by an
\* I/O failure or by a condition on its creator) exactly one has succeeded and
\* the other has failed with a collision; and the stored clan is always the one
\* written by the attempt that succeeded.
C5_ExactlyOneCreateSucceeds ==
    \A p \in Attempts : \A q \in Attempts \ { p } :
        attempt[p].name = attempt[q].name =>
            /\ ~(Succeeded(p) /\ Succeeded(q))
            /\ (Succeeded(p) \/ Collided(p)) /\ (Succeeded(q) \/ Collided(q)) =>
                    Succeeded(p) \/ Succeeded(q)
            /\ Succeeded(p) => clans[attempt[p].name] = Some(ClanStorageOf(p))

\* C5 witness: two attempts raced for one name; one stored its clan and the
\* other was refused by create_clan itself.
C5_Witness ==
    \E p \in Attempts : \E q \in Attempts \ { p } :
        /\ attempt[p].name = attempt[q].name
        /\ Succeeded(p)
        /\ attempt[q].pc = "done" /\ attempt[q].res = "collision"
        /\ clans[attempt[p].name] = Some(ClanStorageOf(p))

(***************************************************************************)
(* Properties of the storage service and the adapters.                     *)
(***************************************************************************)
\* C6 (as claimed): loading an account that exists returns InvalidPassword when
\* the password is not the stored one, on both backends, and the account as it
\* was last saved when the password is the stored one.
C6_WrongPasswordIsInvalidPassword ==
    /\ last.op \in { "load_account", "service_load_account" }
    /\ last.fault = 0
    /\ last.pre # NoRec
    => IF ValueOf(last.pre).password_md5_sha256 # last.hash
       THEN last.res.tag = "InvalidPassword"
       ELSE last.res = OkSome(ValueOf(last.pre))

\* The character names in the stored account of that name.
PersistedNames(name) ==
    IF accounts[name] = NoRec THEN {}
    ELSE { ValueOf(accounts[name]).character_names[i] :
             i \in 1 .. Len(ValueOf(accounts[name]).character_names) }

\* C7 (as claimed): after a request to create a character has been handled, the
\* record of the new name exists iff the name is in the stored list of the
\* account, and a request answered with success has its name in that list.
C7_CharacterExistsIffListed ==
    /\ last.op \in { "CreateCharacter", "service_create_character" }
    /\ last.key \in CharacterNames
    /\ last.pre = NoRec
    => LET listed == last.key \in PersistedNames(ValueOf(conn).name) IN
        /\ characters[last.key] # NoRec <=> listed
        /\ last.msg \in { "CreateCharacterSuccess", "Ok" } => listed

\* C8 (as claimed): load_bank of the service, for an account without a bank,
\* returns the default bank and stores it, so that the adapter's load_bank
\* returns the default bank afterwards.
C8_LoadBankCreatesDefault ==
    /\ last.op \in { "load_bank", "service_load_bank" }
    /\ last.fault = 0
    /\ last.pre = NoRec
    => /\ last.res = OkSome(DefaultBank)
       /\ load_bank(banks, last.key, FALSE).res = OkSome(DefaultBank)

\* C9 (as claimed): on every store reached from the empty one, every operation
\* of the JSON adapter and of the relational adapter returns the same result
\* and leaves the same store.
C9_AdaptersAgree ==
    scope \in { "account", "character", "bank" } =>
    /\ \A a \in AccountValues :
        /\ JsonCreateAccount(accounts, a, FALSE) = PgCreateAccount(accounts, a, FALSE)
        /\ JsonSaveAccount(accounts, a, FALSE) = PgSaveAccount(accounts, a, FALSE)
    /\ \A n \in AccountNames : \A h \in Hashes :
        JsonLoadAccount(accounts, n, h, FALSE) = PgLoadAccount(accounts, n, h, FALSE)
    /\ \A c \in CharacterValues :
        /\ JsonCreateCharacter(characters, c, FALSE) = PgCreateCharacter(characters, c, FALSE)
        /\ JsonSaveCharacter(characters, c, FALSE) = PgSaveCharacter(characters, c, FALSE)
    /\ \A n \in CharacterNames :
        /\ JsonLoadCharacter(characters, n, FALSE) = PgLoadCharacter(characters, n, FALSE)
        /\ JsonDeleteCharacter(characters, n, FALSE) = PgDeleteCharacter(characters, n, FALSE)
        /\ JsonCharacterExists(characters, n, FALSE) = PgCharacterExists(characters, n, FALSE)
    /\ \A n \in AccountNames :
        /\ JsonLoadBank(banks, n, FALSE) = PgLoadBank(banks, n, FALSE)
        /\ \A b \in Vals :
            /\ JsonCreateBank(banks, n, b, FALSE) = PgCreateBank(banks, n, b, FALSE)
            /\ JsonSaveBank(banks, n, b, FALSE) = PgSaveBank(banks, n, b, FALSE)

\* A save of each kind.
SaveOps == { "save_account", "save_character", "save_bank", "save_clan" }

\* What a successful save(X) under key k leaves: load returns X, saving X again
\* changes nothing, and the records under the other keys are as they were.
SavedAccount(before, after, X) ==
    /\ load_account(after, X.name, X.password_md5_sha256, FALSE).res = OkSome(X)
    /\ save_account(after, X, FALSE) = [tbl |-> after, res |-> Ok]
    /\ \A j \in AccountNames \ { X.name } : after[j] = before[j]

SavedCharacter(before, after, X) ==
    /\ load_character(after, X.name, FALSE).res = OkSome(X)
    /\ save_character(after, X, FALSE) = [tbl |-> after, res |-> Ok]
    /\ \A j \in CharacterNames \ { X.name } : after[j] = before[j]

SavedBank(before, after, k, X) ==
    /\ load_bank(after, k, FALSE).res = OkSome(X)
    /\ save_bank(after, k, X, FALSE) = [tbl |-> after, res |-> Ok]
    /\ \A j \in AccountNames \ { k } : after[j] = before[j]

SavedClan(before, after, X) ==
    /\ load_clan(after, X.name, FALSE).res = OkSome(X)
    /\ save_clan(after, X, FALSE) = [tbl |-> after, res |-> Ok]
    /\ \A j \in ClanNames \ { X.name } : after[j] = before[j]

\* C10: on both backends save is an idempotent upsert for accounts, characters,
\* banks and clans: after a successful save(X) a load of its key returns X,
\* whether or not a record was there; saving X again leaves the store as it is;
\* and the records under the other keys are unchanged.
C10_SaveIsIdempotentUpsert ==
    [][ last'.op \in SaveOps /\ last'.res = Ok =>
          LET X == ValueOf(last'.arg) IN
          /\ last'.op = "save_account" =>
                /\ SavedAccount(accounts, accounts', X)
                /\ UNCHANGED <<characters, banks, clans>>
          /\ last'.op = "save_character" =>
                /\ SavedCharacter(characters, characters', X)
                /\ UNCHANGED <<accounts, banks, clans>>
          /\ last'.op = "save_bank" =>
                /\ SavedBank(banks, banks', last'.key, X)
                /\ UNCHANGED <<accounts, characters, clans>>
          /\ last'.op = "save_clan" =>
                /\ SavedClan(clans, clans', X)
                /\ UNCHANGED <<accounts, characters, banks>>
      ]_vars

\* C10 witness: a save has replaced a record that held another value, on the
\* relational backend.
C10_Witness ==
    /\ backend = "postgres"
    /\ last.op \in SaveOps
    /\ last.res = Ok
    /\ last.pre # NoRec
    /\ last.pre # last.arg

\* C11: create_clan for a name that has a stored clan fails and leaves the
\* stored record as it was, on both backends; save_clan for that name, when no
\* I/O failure occurs, succeeds and the stored record is the one saved.
C11_CreateRefusesSaveReplaces ==
    /\ last.op = "create_clan" /\ last.pre # NoRec =>
            IsErr(last.res) /\ clans[last.key] = last.pre
    /\ last.op = "save_clan" /\ last.pre # NoRec /\ last.fault = 0 =>
            last.res = Ok /\ clans[last.key] = last.arg

\* C11 witness: create_clan was refused for a name whose stored clan differs
\* from the one offered, and the stored clan is still the earlier one.
C11_Witness ==
    /\ last.op = "create_clan"
    /\ last.pre # NoRec
    /\ last.pre # last.arg
    /\ last.res = Err("conflict")
    /\ clans[last.key] = last.pre

\* C13 (as claimed): an I/O failure of the adapter reaches the caller as a
\* storage failure: a failing existence check is not answered with a name
\* collision (AlreadyExists, InvalidName), and a failing account read is not
\* answered with "no record", NotFound or InvalidPassword.
C13_IoFailureIsGenericFailure ==
    /\ /\ last.op \in { "CreateCharacter", "service_create_character" }
       /\ last.fault = 1
       /\ last.key \in CharacterNames
       /\ last.pre = NoRec
       => last.msg \notin { "AlreadyExists", "InvalidName" }
    /\ /\ last.op \in { "load_account", "service_load_account" }
       /\ last.fault = 1
       => last.res.tag \notin { "none", "NotFound", "InvalidPassword" }

\* C12: a clan record is never observed partially written.  The file at the
\* path always holds the whole text of a record; a load_clan that interleaves
\* with the steps of save_clan / create_clan calls for the same name returns a
\* whole record that has been at the path, or none, and none only if it found
\* no file; it never returns a truncated or mixed record.  A write that fails
\* midway has not touched the record at the path.
C12_ClanRecordNeverPartial ==
    /\ path # NoFile => Parse(inodes[path]).tag = "some"
    /\ reader.pc = "done" =>
            /\ reader.res.tag \in { "none", "some" }
            /\ reader.res.tag = "none" => ~reader.had
            /\ reader.res.tag = "some" => reader.res.val \subseteq stored
    /\ \A p \in Writers : writer[p].pc = "failed" =>
            /\ p \notin stored
            /\ path = NoFile \/ Parse(inodes[path]).val # { p }

\* C12 witness: load_clan has read the first chunk of the file it opened, and
\* meanwhile a save_clan has given the path to its new file, which a second
\* writer fills while it waits.
C12_Witness ==
    /\ reader.pc = "open" /\ Len(reader.buf) = 1
    /\ path # NoFile /\ path # reader.fd
    /\ \E p \in Writers : writer[p].pc = "writing" /\ Len(inodes[writer[p].tmp]) = 1

\* C22 (as claimed): the input systems drain the inbound queue of the
\* connection in each step: when a step ends, every message that waited when
\* it started has been consumed in it.
C22_QueueDrainedEachStep ==
    [][ tick' = tick + 1 => consumed >= queuedAtStart ]_vars

\* The path with every letter in upper case and every slash a backslash, and
\* the path with every letter in lower case and every slash a forward slash:
\* two paths that differ only in these.
FoldUp(p) ==
    [i \in 1..Len(p) |-> IF p[i] = 97 THEN 65 ELSE IF p[i] = Slash THEN Backslash ELSE p[i]]
FoldDown(p) ==
    [i \in 1..Len(p) |-> IF p[i] = 65 THEN 97 ELSE IF p[i] = Backslash THEN Slash ELSE p[i]]
IsAscii(p) == \A i \in 1..Len(p) : p[i] < 128

\* C23: the hash of an ASCII path does not depend on the case of its letters
\* or on the direction of its slashes: it is the hash of the same path in
\* upper case with backslashes and of the same path in lower case with forward
\* slashes (so any two paths that differ only in these have the same hash);
\* computing it again gives the same value; the empty path hashes to 0.
C23_HashIgnoresCaseAndSlash ==
    pathHash # NoHash /\ IsAscii(vfsPath) =>
        /\ pathHash.tag = "hash"
        /\ pathHash = FileNameHashFrom(vfsPath)
        /\ pathHash = FileNameHashFrom(FoldUp(vfsPath))
        /\ pathHash = FileNameHashFrom(FoldDown(vfsPath))
        /\ vfsPath = << >> => pathHash.val = << 0, 0 >>

\* C23 witness: the hash of a/A\a has been computed, and it is not 0.
C23_Witness ==
    /\ vfsPath = << 97, Slash, 65, Backslash, 97 >>
    /\ pathHash.tag = "hash"
    /\ pathHash.val # << 0, 0 >>

\* C24 (as claimed): the normalised path has no two adjacent backslashes.
C24_NoDoubledSeparator ==
    normPath # NoRec =>
        LET q == ValueOf(normPath)
        IN \A i \in 1..(Len(q) - 1) : ~(q[i] = Backslash /\ q[i + 1] = Backslash)

\* C25 (as claimed): the hash function returns a value for every input string
\* and never indexes its table outside the 256 entries.
C25_HashIsTotal ==
    pathHash.tag # "panic"

(***************************************************************************)
(* The index of the archive.                                               *)
(***************************************************************************)
\* The decryption of the body is over: the records are read, or the load ended.
DecryptionOver == loadPc \in { "records", "loaded", "failed" }

\* The blocks of the history that cover byte i of the file (counted from 1).
BlocksCovering(i) ==
    { k \in DOMAIN blockKeys : blockKeys[k].pos < i /\ i <= blockKeys[k].pos + BlockSize }

\* C26: when the encrypted flag of the count field is set, every byte of the
\* body after the header of 8 bytes is decrypted exactly once, the final block
\* included, whether it is full or shorter than 32 bytes; when the flag is
\* clear no byte is changed.
C26_EveryBodyByteDecryptedOnce ==
    DecryptionOver =>
        IF IsEncrypted(SubSeq(origData, 5, 8))
        THEN \A i \in (HeaderSize + 1)..Len(origData) : Cardinality(BlocksCovering(i)) = 1
        ELSE indexData = origData

\* The 32 bytes at an offset of the file as it was read.
OrigBlock(pos) == SubSeq(origData, pos + 1, pos + BlockSize)

\* C27: the keys are chained over the ciphertext: the key of the first block is
\* the count field as it was read, the key of block k+1 is generate_hash of the
\* bytes of block k as they were before it was decrypted and of the key of
\* block k, and each block is decrypted with its key.
C27_KeysChainedOverCiphertext ==
    /\ \A k \in DOMAIN blockKeys :
          /\ blockKeys[k].pos = HeaderSize + BlockSize * (k - 1)
          /\ blockKeys[k].key =
                IF k = 1 THEN SubSeq(origData, 5, 8)
                ELSE generate_hash(OrigBlock(blockKeys[k - 1].pos), blockKeys[k - 1].key)
          /\ SubSeq(indexData, blockKeys[k].pos + 1, blockKeys[k].pos + BlockSize)
                = crypt_data(OrigBlock(blockKeys[k].pos), blockKeys[k].key)
    /\ (loadPc = "decrypt" /\ blockKeys # << >>) =>
          cryptKey = generate_hash(OrigBlock(blockKeys[Len(blockKeys)].pos),
                                   blockKeys[Len(blockKeys)].key)

\* C27 witness: two blocks were decrypted, the second with a chained key.
C27_Witness == Len(blockKeys) = 2 /\ DecryptionOver

\* Record i of the body as the load reads it, and its parts.
RecordAt(i) ==
    SubSeq(indexData, HeaderSize + RecordSize * (i - 1) + 1, HeaderSize + RecordSize * i)
RecordHashAt(i) == SubSeq(RecordAt(i), 1, 4)
RecordEntryAt(i) == [offset |-> SubSeq(RecordAt(i), 9, 16), size |-> SubSeq(RecordAt(i), 5, 8)]
LastRecordWith(h) ==
    CHOOSE i \in 1..fileCount :
        /\ RecordHashAt(i) = h
        /\ \A j \in (i + 1)..fileCount : RecordHashAt(j) # h

\* C28: after a successful load the body holds at least `count` records, the
\* index has one entry for each path hash among the first `count` records and
\* no other, and each entry is the (offset, size) of the last record with that
\* hash; a body with fewer records never yields an index.
C28_LastRecordWins ==
    loadPc = "loaded" =>
        /\ HeaderSize + RecordSize * fileCount <= Len(indexData)
        /\ DOMAIN files = { RecordHashAt(i) : i \in 1..fileCount }
        /\ \A h \in DOMAIN files : files[h] = RecordEntryAt(LastRecordWith(h))

\* C28 witness: an index loaded from two records that carry one hash and
\* different entries.
C28_Witness ==
    /\ loadPc = "loaded"
    /\ fileCount = 2
    /\ RecordHashAt(1) = RecordHashAt(2)
    /\ RecordEntryAt(1) # RecordEntryAt(2)

\* C29: a lookup never aborts, also when the range of the entry lies beyond the
\* end of the data blob.
C29_LookupNeverAborts == lookupResult.tag # "panic"

(***************************************************************************)
(* The nearest targets of a bot.                                           *)
(***************************************************************************)
\* The smaller of two numbers.
Smaller(a, b) == IF a < b THEN a ELSE b

\* Enemy i comes before enemy j by distance, ties broken by scan order.
NearerThan(i, j) ==
    \/ scannedEnemies[i] < scannedEnemies[j]
    \/ scannedEnemies[i] = scannedEnemies[j] /\ i < j

\* The k nearest of the enemies that were scanned.
NearestOf(k) ==
    { i \in DOMAIN scannedEnemies :
        Cardinality({ j \in DOMAIN scannedEnemies : NearerThan(j, i) }) < k }

\* C30: after the scan of n living enemies the buffer holds min(n, 10)
\* candidates, the nearest by distance with ties broken by scan order,
\* whatever the scan order; it never holds more than 10.
C30_BufferHoldsNearest ==
    /\ Len(nearest_targets) <= TargetCapacity
    /\ botPc = "scanned" =>
          /\ Len(nearest_targets) = Smaller(Len(scannedEnemies), TargetCapacity)
          /\ { nearest_targets[i].entity : i \in DOMAIN nearest_targets }
                = NearestOf(TargetCapacity)

(***************************************************************************)
(* Logins.                                                                 *)
(***************************************************************************)
\* C31: a login request that names an existing account with a password that
\* does not match never yields LoginSuccess, attaches no Account to the
\* connection and leaves the stored account as it was, on both backends.
C31_WrongPasswordChangesNothing ==
    (/\ last.op = "LoginRequest"
     /\ last.pre # NoRec
     /\ ValueOf(last.pre).password_md5_sha256 # last.hash) =>
        /\ last.msg # "LoginSuccess"
        /\ conn = NoRec
        /\ accounts[last.key] = last.pre

\* C36: loading a bank never replaces a bank record: if the account has a
\* stored bank, load_bank of the service leaves the stored record as it was,
\* also when the adapter's read of the record fails.
C36_LoadBankNeverReplaces ==
    (last.op = "service_load_bank" /\ last.pre # NoRec) => banks[last.key] = last.pre

\* C32: no message that a client can send makes the step abort: a message
\* other than ConnectionRequest and LoginRequest on a connection that has not
\* authenticated is rejected or ignored, and the server keeps stepping.
C32_NoClientMessageAbortsStep == loginPc # "panicked"

(***************************************************************************)
(* clan_system.                                                            *)
(***************************************************************************)
\* clan_system reads a ClanEvent::Create in this step of the model.
ReadsClanCreate ==
    /\ guildEvents # << >>
    /\ guildEvents' = Tail(guildEvents)
    /\ Head(guildEvents).kind = "Create"

\* C33: a character is an Online member of at most one clan: a Create of a
\* creator who belongs to a clan, also to one created by an earlier Create
\* that was read in the same step, is answered Failed, takes no money and
\* creates no second clan record and no second clan entity.
C33_CreatorJoinsAtMostOneClan ==
    /\ [](Len(clanEntities) <= 1)
    /\ [][ (ReadsClanCreate /\ (creator.clan_membership # NoRec \/ guildCmds # << >>)) =>
              /\ guildLast'.msg = "Failed"
              /\ creator' = creator
              /\ clans' = clans
              /\ guildCmds' = guildCmds
         ]_vars

ReadsClanAdd ==
    /\ guildEvents # << >>
    /\ guildEvents' = Tail(guildEvents)
    /\ Head(guildEvents).kind \in { "AddLevel", "AddMoney", "AddPoints" }

\* The limbs of the maximum of an unsigned integer of as many limbs as v, less v.
RoomAbove(v) == [i \in DOMAIN v |-> (Limb - 1) - v[i]]

\* Adding the signed amount d to the unsigned v leaves the range of v.
UnsignedLeavesRange(v, d) ==
    IF d.neg THEN LimbsLess(v, d.mag) ELSE LimbsLess(RoomAbove(v), d.mag)

\* Adding the i64 amounts a and b leaves the range of an i64.
SignedLeavesRange(a, b) ==
    /\ a.neg = b.neg
    /\ LimbsLess(SubLimbs(IF a.neg THEN MinI64 ELSE MaxI64, a.mag, 0).limbs, b.mag)

\* The event would overflow or underflow, or bring the level to 0.
LeavesRange(clan, ev) ==
    CASE ev.kind = "AddLevel" ->
            \/ UnsignedLeavesRange(clan.level, ev.delta)
            \/ ev.delta.neg /\ ev.delta.mag = clan.level
      [] ev.kind = "AddMoney" -> SignedLeavesRange(clan.money, ev.delta)
      [] ev.kind = "AddPoints" -> UnsignedLeavesRange(clan.points, ev.delta)

\* C40: clan arithmetic never wraps: an AddLevel, AddMoney or AddPoints event
\* whose result would leave the range of its integer, or bring the level to 0,
\* leaves level, money and points as they are, saves nothing and notifies
\* nobody; any other event changes the clan, saves and notifies once; and the
\* level of the clan is never 0.
C40_ClanArithmeticNeverWraps ==
    /\ [](guild # NoRec => ~IsZero(ValueOf(guild).level))
    /\ [][ ReadsClanAdd =>
              IF LeavesRange(ValueOf(guild), Head(guildEvents))
              THEN /\ guild' = guild
                   /\ guildSaves' = guildSaves
                   /\ guildNotes' = guildNotes
                   /\ clans' = clans
              ELSE /\ guildSaves' = guildSaves + 1
                   /\ guildNotes' = guildNotes + 1
                   /\ (IsZero(Head(guildEvents).delta.mag) <=> guild' = guild)
         ]_vars

\* C40 witness: an AddLevel of -1 was read for a clan of level 1, an AddMoney
\* for a clan that holds the most money, or an AddPoints of -1 for a clan
\* without points, and the clan is as it was, unsaved and unnotified.
C40_Witness ==
    /\ guildLast.kind \in { "AddLevel", "AddMoney", "AddPoints" }
    /\ LeavesRange(ValueOf(guildLast.guild), guildLast)
    /\ guild = guildLast.guild
    /\ guildSaves = guildLast.saves
    /\ guildNotes = guildLast.notes

\* C35: after a world connection request has succeeded, the character names
\* of the Account attached to the connection are the names of the characters
\* of the attached CharacterList, in the same order, and are the list of the
\* stored account.
C35_AccountNamesTheCharacterList ==
    (/\ wlast.op = "ConnectionRequest"
     /\ wlast.msg = "ConnectionRequestSuccess"
     /\ wlast.fault = 0)
    => LET client == wclients[wlast.entity]
           account == ValueOf(client.account)
       IN  /\ account.character_names = ValueOf(client.character_list)
           /\ ValueOf(accounts[account.name]).character_names = account.character_names

\* Two connections carry the same login token.
TokenShared ==
    \E e1, e2 \in WorldEntities :
        /\ e1 # e2
        /\ wclients[e1].login_token # 0
        /\ wclients[e1].login_token = wclients[e2].login_token

\* A connection request was handled in this step.
ReadsConnectionRequest ==
    wsteps' = wsteps + 1 /\ wlast'.op = "ConnectionRequest"

\* The token of the request handled in this step, before the step.
RequestToken == get_token_mut(tokens, wlast'.token)

\* C37: a login token is accepted by at most one world connection request: no
\* two connections carry the same token; a request with an unknown token, or
\* with a token bound to a world client or a game client, is answered
\* InvalidToken, reads no account and changes neither the tokens, the
\* connections nor the store; a request that is not accepted, the ones whose
\* account load fails among them, leaves the tokens as they were; and a request
\* is accepted only with a token that was unbound.
C37_TokenAcceptedAtMostOnce ==
    /\ [](~TokenShared)
    /\ [][ ReadsConnectionRequest =>
             /\ (\/ RequestToken = NoRec
                 \/ ValueOf(RequestToken).world_client # NoRec
                 \/ ValueOf(RequestToken).game_client # NoRec)
                => /\ wlast'.msg = "InvalidToken"
                   /\ wlast'.reads = 0
                   /\ tokens' = tokens
                   /\ wclients' = wclients
                   /\ accounts' = accounts
                   /\ characters' = characters
             /\ wlast'.msg # "ConnectionRequestSuccess"
                => tokens' = tokens /\ wclients' = wclients
             /\ wlast'.msg = "ConnectionRequestSuccess"
                => /\ RequestToken # NoRec
                   /\ ValueOf(RequestToken).world_client = NoRec
                   /\ ValueOf(RequestToken).game_client = NoRec
                   /\ ValueOf(tokens'[wlast'.token]).world_client = Some(wlast'.entity)
         ]_vars

\* C37 (witness): a connection sent the token that another connection had been
\* accepted with, and was answered InvalidToken.
C37_Witness ==
    /\ wlast.op = "ConnectionRequest"
    /\ wlast.msg = "InvalidToken"
    /\ \E e \in WorldEntities \ { wlast.entity } : wclients[e].login_token = wlast.token
    /\ wclients[wlast.entity].account = NoRec

\* C38: through the CreateCharacter requests of a world connection the
\* character names of its Account, and of the stored account, are never more
\* than 5; a request made when the Account has 5 is answered NoMoreSlots and
\* writes neither a character record nor the account.
C38_NeverMoreThanFiveCharacters ==
    /\ [](/\ \A e \in WorldEntities :
                wclients[e].account # NoRec
                => Len(ValueOf(wclients[e].account).character_names) <= 5
          /\ \A n \in AccountNames :
                accounts[n] # NoRec => Len(ValueOf(accounts[n]).character_names) <= 5)
    /\ [][ (/\ wsteps' = wsteps + 1
            /\ wlast'.op = "CreateCharacter"
            /\ Len(ValueOf(wclients[wlast'.entity].account).character_names) = 5)
           => /\ wlast'.msg = "NoMoreSlots"
              /\ accounts' = accounts
              /\ characters' = characters
              /\ wclients' = wclients
         ]_vars

\* C38 (witness): the Account reached 5 names by a request of the connection,
\* and the next request was answered NoMoreSlots.
C38_Witness ==
    /\ wlast.op = "CreateCharacter"
    /\ wlast.msg = "NoMoreSlots"
    /\ LET names == ValueOf(wclients[wlast.entity].account).character_names IN
        Len(names) = 5 /\ names[5] \in CharacterNames

(***************************************************************************)
(* The specifications.  The variables a specification does not drive stay  *)
(* at their idle values.                                                   *)
(***************************************************************************)
IdleSched ==
    /\ sched = "Idle"
    /\ status = [s \in Systems |-> "waiting"]
    /\ frame = 0
    /\ deferred = {}

IdleSave ==
    /\ phase = "Idle"
    /\ step = 0
    /\ comps = [e \in Ents |-> [alive |-> TRUE, val |-> 0, bank |-> 0]]
    /\ saveEvents = <<>>
    /\ enqSnap = <<>>
    /\ savePc = "idle"
    /\ inflight = NoOp
    /\ blocked = FALSE
    /\ despawnCmds = {}
    /\ charStore = [e \in Ents |-> NoRec]
    /\ bankStore = [e \in Ents |-> NoRec]
    /\ members = << >>
    /\ clanEvents = <<>>

IdleFile ==
    /\ path = NoFile
    /\ inodes = [i \in Files |-> <<>>]
    /\ writer = [p \in Writers |-> IdleWriter]
    /\ reader = IdleReader
    /\ stored = {}

IdleLogin ==
    /\ clientRx = << >>
    /\ loginAccount = NoRec
    /\ pendingInsert = FALSE
    /\ polled = {}
    /\ queuedAtStart = 0
    /\ consumed = 0
    /\ tick = 0
    /\ loginPc = "running"

IdleHash ==
    /\ vfsPath = << >>
    /\ normPath = NoRec
    /\ pathHash = NoHash

IdleVfs ==
    /\ indexData = << >>
    /\ origData = << >>
    /\ loadPc = "idle"
    /\ cryptPos = 0
    /\ cryptKey = << 0, 0, 0, 0 >>
    /\ blockKeys = << >>
    /\ fileCount = 0
    /\ files = NoFiles
    /\ recordsRead = 0
    /\ lookupResult = NoLookup

IdleBot ==
    /\ nearest_targets = << >>
    /\ scannedEnemies = << >>
    /\ skippedEntities = 0
    /\ botPc = "idle"
    /\ botTarget = NoRec

IdleWorld ==
    /\ tokens = [t \in TokenIds |-> NoRec]
    /\ wclients = [e \in WorldEntities |-> NoClient]
    /\ wsteps = 0
    /\ wlast = NoMessage

IdleGuild ==
    /\ guildScope = "none"
    /\ guildPc = "idle"
    /\ guildStep = 0
    /\ guildEvents = << >>
    /\ creator = [clan_membership |-> NoRec, level |-> 0, money |-> 0]
    /\ guildCmds = << >>
    /\ clanEntities = << >>
    /\ guild = NoRec
    /\ guildSaves = 0
    /\ guildNotes = 0
    /\ guildLast = NoGuildEvent

IdleClan ==
    /\ backend = "none"
    /\ clans = [n \in ClanNames |-> NoRec]
    /\ attempt = [p \in Attempts |-> NoAttempt]

IdleStore ==
    /\ scope = "none"
    /\ accounts = [n \in AccountNames |-> NoRec]
    /\ characters = [n \in CharacterNames |-> NoRec]
    /\ banks = [n \in AccountNames |-> NoRec]
    /\ conn = NoRec
    /\ requests = 0
    /\ last = NoCall

\* One step from the start of its Update schedule.
InitUpdate == InitSchedAt("Update") /\ IdleSave /\ IdleClan /\ IdleStore /\ IdleFile /\ IdleLogin /\ IdleHash /\ IdleVfs /\ IdleBot /\ IdleGuild /\ IdleWorld

SpecUpdate == InitUpdate /\ [][SchedNext]_vars

\* One whole step.
InitStep == InitSchedAt("PreUpdate") /\ IdleSave /\ IdleClan /\ IdleStore /\ IdleFile /\ IdleLogin /\ IdleHash /\ IdleVfs /\ IdleBot /\ IdleGuild /\ IdleWorld

SpecStep == InitStep /\ [][SchedNext]_vars

\* A running world at the start of a step: each entity id names a connected
\* character or an entity that has been despawned.
\* The sequences that list every element of the set S once.
OrdersOf(S) ==
    { q \in [1..Cardinality(S) -> S] : \A i, j \in 1..Cardinality(S) : q[i] = q[j] => i = j }

\* clan.members at the start: an Offline entry between the Online entries of
\* the listed entities.
RosterOf(listed) ==
    SelectSeq(<< OnlineMember("e1", "Master", 7),
                 OfflineMember("Old", "Commander", 3, 1, "Hawker"),
                 OnlineMember("e2", "Junior", 2) >>,
              LAMBDA m : m.kind = "Offline" \/ m.entity \in listed)

\* The stored members of a clan whose members were all found when it was saved.
StoredRosterOf(ms) ==
    [i \in 1..Len(ms) |->
        [name |-> IF ms[i].kind = "Offline" THEN ms[i].name
                                             ELSE CharacterNameOf(ms[i].entity),
         position |-> ms[i].position, contribution |-> ms[i].contribution]]

\* The start of a step.  An entity exists or was despawned in an earlier step; a
\* live entity may be an online member of the clan; an entity that save_system
\* removed in the previous step may have left a MemberDisconnect event, which
\* clan_system has not read yet.  The stored clan lists the members.
InitSave ==
    /\ IdleWorld
    /\ IdleGuild
    /\ IdleBot
    /\ IdleVfs
    /\ IdleHash
    /\ IdleSched
    /\ IdleStore
    /\ IdleFile
    /\ IdleLogin
    /\ backend = "json"
    /\ attempt = [p \in Attempts |-> NoAttempt]
    /\ phase = "Simulate"
    /\ step = 0
    /\ \E live \in SUBSET Ents, listed \in SUBSET Ents :
          /\ comps = [e \in Ents |-> [alive |-> e \in live, val |-> 0, bank |-> 0]]
          /\ members = RosterOf(listed)
          /\ clanEvents \in { [i \in 1..Len(q) |-> MemberDisconnectOf(q[i])] :
                                  q \in OrdersOf(listed \ live) }
          /\ clans = [n \in ClanNames |->
                        IF n = ClanName
                        THEN Some([name |-> n, data |-> StoredRosterOf(RosterOf(listed))])
                        ELSE NoRec]
    /\ saveEvents = <<>>
    /\ enqSnap = <<>>
    /\ savePc = "idle"
    /\ inflight = NoOp
    /\ blocked = FALSE
    /\ despawnCmds = {}
    /\ charStore = [e \in Ents |-> NoRec]
    /\ bankStore = [e \in Ents |-> NoRec]

\* The save system over MaxSteps steps.
SpecSave == InitSave /\ [][SaveNext]_vars

\* Attempts to create clans on either backend, the store being empty.
InitClan ==
    /\ IdleWorld
    /\ IdleGuild
    /\ IdleBot
    /\ IdleVfs
    /\ IdleHash
    /\ IdleSched
    /\ IdleSave
    /\ IdleStore
    /\ IdleFile
    /\ IdleLogin
    /\ backend \in Backends
    /\ clans = [n \in ClanNames |-> NoRec]
    /\ attempt = [p \in Attempts |-> NoAttempt]

SpecClan == InitClan /\ [][ClanNext]_vars

\* The storage service on either backend, the store being empty, working on
\* the records of one kind, or (scope world) serving a client of the world server
\* whose account has been created and loaded.
\* An account that is stored when a login is requested: it has a character.
StoredAccount == [name |-> "alice", password_md5_sha256 |-> "h1", character_names |-> << "Arua" >>]
FirstAccount == [name |-> "alice", password_md5_sha256 |-> "h1", character_names |-> <<>>]

InitStore ==
    /\ IdleWorld
    /\ IdleGuild
    /\ IdleBot
    /\ IdleVfs
    /\ IdleHash
    /\ IdleSched
    /\ IdleSave
    /\ IdleFile
    /\ IdleLogin
    /\ backend \in Backends
    /\ clans = [n \in ClanNames |-> NoRec]
    /\ attempt = [p \in Attempts |-> NoAttempt]
    /\ scope \in { "account", "character", "world", "login", "bank", "clan" }
    /\ accounts = IF scope = "world"
                  THEN [n \in AccountNames |-> IF n = "alice" THEN Some(FirstAccount) ELSE NoRec]
                  ELSE IF scope = "login"
                  THEN [n \in AccountNames |-> IF n = "alice" THEN Some(StoredAccount) ELSE NoRec]
                  ELSE [n \in AccountNames |-> NoRec]
    /\ characters = [n \in CharacterNames |-> NoRec]
    /\ banks = [n \in AccountNames |-> NoRec]
    /\ conn = IF scope = "world" THEN Some(FirstAccount) ELSE NoRec
    /\ requests = 0
    /\ last = NoCall

SpecStore == InitStore /\ [][StoreNext]_vars

\* The file of a clan: no record yet, or version 0 of the record in file 1.
InitFile ==
    /\ IdleWorld
    /\ IdleGuild
    /\ IdleBot
    /\ IdleVfs
    /\ IdleHash
    /\ IdleSched
    /\ IdleSave
    /\ IdleClan
    /\ IdleStore
    /\ IdleLogin
    /\ path \in { NoFile, 1 }
    /\ inodes = [i \in Files |-> IF i = path THEN Serialize(0) ELSE <<>>]
    /\ writer = [p \in Writers |-> IdleWriter]
    /\ reader = IdleReader
    /\ stored = IF path = NoFile THEN {} ELSE { 0 }

SpecFile == InitFile /\ [][FileNext]_vars

\* A connection that has just been accepted, or one that has logged in; the
\* client may have sent messages before the first step.
InitLogin ==
    /\ IdleWorld
    /\ IdleGuild
    /\ IdleBot
    /\ IdleVfs
    /\ IdleHash
    /\ IdleSched
    /\ IdleSave
    /\ IdleClan
    /\ IdleStore
    /\ IdleFile
    /\ clientRx \in { q \in UNION { [1..n -> LoginMessages] : n \in 0..MaxQueue } :
                        \A i \in 1..Len(q) : q[i] \in LoginMessages }
    /\ loginAccount \in { NoRec, Some("alice") }
    /\ pendingInsert = FALSE
    /\ polled = {}
    /\ queuedAtStart = Len(clientRx)
    /\ consumed = 0
    /\ tick = 0
    /\ loginPc = "running"

SpecLogin == InitLogin /\ [][LoginNext]_vars

\* A path of at most MaxPathLen characters is given to FileNameHash::from.
InitHash ==
    /\ IdleWorld
    /\ IdleGuild
    /\ IdleBot
    /\ IdleVfs
    /\ IdleSched
    /\ IdleSave
    /\ IdleClan
    /\ IdleStore
    /\ IdleFile
    /\ IdleLogin
    /\ vfsPath \in Paths
    /\ normPath = NoRec
    /\ pathHash = NoHash

SpecHash == InitHash /\ [][HashNext]_vars

\* An index file: version 1, a count of 0..MaxRecords with or without the
\* encrypted flag, and a body.
InitVfs ==
    /\ IdleWorld
    /\ IdleGuild
    /\ IdleBot
    /\ IdleSched
    /\ IdleSave
    /\ IdleClan
    /\ IdleStore
    /\ IdleFile
    /\ IdleLogin
    /\ IdleHash
    /\ \E count \in 0..MaxRecords, encrypted \in BOOLEAN, body \in Bodies :
          indexData = LeBytes(1, 4)
                        \o (IF encrypted THEN XorBytes(LeBytes(count, 4), CountMask)
                                         ELSE LeBytes(count, 4))
                        \o body
    /\ origData = indexData
    /\ loadPc = "start"
    /\ cryptPos = 0
    /\ cryptKey = << 0, 0, 0, 0 >>
    /\ blockKeys = << >>
    /\ fileCount = 0
    /\ files = NoFiles
    /\ recordsRead = 0
    /\ lookupResult = NoLookup

SpecVfs == InitVfs /\ [][VfsNext]_vars

\* A bot whose action was requested, with an empty buffer (99).
InitBot ==
    /\ IdleWorld
    /\ IdleGuild
    /\ IdleSched
    /\ IdleSave
    /\ IdleClan
    /\ IdleStore
    /\ IdleFile
    /\ IdleLogin
    /\ IdleHash
    /\ IdleVfs
    /\ nearest_targets = << >>
    /\ scannedEnemies = << >>
    /\ skippedEntities = 0
    /\ botPc = "scanning"
    /\ botTarget = NoRec

SpecBot == InitBot /\ [][BotNext]_vars

\* A creator without clan, of a level and with money below or above what a
\* clan needs, and a store that holds a clan or none.
InitGuild ==
    /\ IdleWorld
    /\ IdleSched
    /\ IdleSave
    /\ IdleStore
    /\ IdleFile
    /\ IdleLogin
    /\ IdleHash
    /\ IdleVfs
    /\ IdleBot
    /\ backend \in Backends
    /\ guildScope \in { "create", "arith" }
    /\ \E held \in BOOLEAN :
          /\ guildScope = "arith" => held
          /\ clans = [n \in ClanNames |->
                        IF held /\ n = "Knights"
                        THEN Some([name |-> n, data |-> << "other" >>]) ELSE NoRec]
    /\ attempt = [p \in Attempts |-> NoAttempt]
    /\ guildPc = "sending"
    /\ guildStep = 0
    /\ guildEvents = << >>
    /\ \E level \in { 29, 30 }, money \in { 999999, 1000000, 2000000 } :
          /\ guildScope = "arith" => level = 30 /\ money = 1000000
          /\ creator = [clan_membership |-> NoRec, level |-> level, money |-> money]
    /\ guildCmds = << >>
    /\ clanEntities = << >>
    /\ IF guildScope = "arith"
       THEN \E level \in Levels, money \in Moneys, points \in Points :
                guild = Some([level |-> level, money |-> money, points |-> points])
       ELSE guild = NoRec
    /\ guildSaves = 0
    /\ guildNotes = 0
    /\ guildLast = NoGuildEvent

SpecGuild == InitGuild /\ [][GuildNext]_vars

\* The world server.  Scope connect: alice has an account that lists none, one
\* or two characters, each of which is stored or not; token 1 is hers and fresh,
\* token 2 does not exist, or is fresh, or has been taken by a game client; no
\* connection has an Account.  Scope slots: the connection w1 has connected
\* with token 1 and alice has three to five characters.
OldNames == << "Jade", "Onyx", "Opal", "Ruby", "Zinc" >>
ListedNames == { << >>, << "Arua" >>, << "Arua", "Hebarn" >> }
AccountListing(names) ==
    [name |-> "alice", password_md5_sha256 |-> "h1", character_names |-> names]

InitWorld ==
    /\ IdleGuild
    /\ IdleBot
    /\ IdleVfs
    /\ IdleHash
    /\ IdleSched
    /\ IdleSave
    /\ IdleFile
    /\ IdleLogin
    /\ backend \in Backends
    /\ clans = [n \in ClanNames |-> NoRec]
    /\ attempt = [p \in Attempts |-> NoAttempt]
    /\ banks = [n \in AccountNames |-> NoRec]
    /\ conn = NoRec
    /\ requests = 0
    /\ last = NoCall
    /\ wsteps = 0
    /\ wlast = NoMessage
    /\ scope \in { "connect", "slots" }
    /\ \E names \in ListedNames \cup { SubSeq(OldNames, 1, n) : n \in 3 .. 5 } :
          /\ scope = "connect" <=> names \in ListedNames
          /\ accounts = [n \in AccountNames |->
                           IF n = "alice" THEN Some(AccountListing(names)) ELSE NoRec]
          /\ wclients = [e \in WorldEntities |->
                           IF scope = "slots" /\ e = "w1"
                           THEN [account |-> Some(AccountListing(names)),
                                 character_list |-> Some(names),
                                 login_token |-> 1]
                           ELSE NoClient]
    /\ \E present \in SUBSET CharacterNames :
          /\ scope = "slots" => present = {}
          /\ characters = [n \in CharacterNames |->
                             IF n \in present THEN Some(NewCharacter(n)) ELSE NoRec]
    /\ \E second \in { NoRec } \cup { Some(FreshToken(u)) : u \in AccountNames }
                       \cup { Some(GameToken(u)) : u \in AccountNames } :
          /\ scope = "slots" => second = NoRec
          /\ tokens = [t \in TokenIds |->
                         IF t = 1
                         THEN Some([FreshToken("alice") EXCEPT
                                      !.world_client =
                                          IF scope = "slots" THEN Some("w1") ELSE NoRec])
                         ELSE second]

SpecWorld == InitWorld /\ [][WorldNext]_vars

====
